---- MODULE Spec2Model ----
(***************************************************************************)
(* Schema lifecycle of the data-architecture SchemaManager                 *)
(* (src/src/data-architecture/core/schema_manager.py): validation,         *)
(* breaking-change detection, migration generation and the create /        *)
(* update / get operations over the file tree definitions/, versions/,     *)
(* governance/, migrations/; the catalog of MetadataManager (registration, *)
(* search, relationships); create_data_domain of the orchestrator over the *)
(* trees of the four managers; and two unsynchronised writers of one       *)
(* schema tree.                                                            *)
(*                                                                         *)
(* Representation.                                                         *)
(*  - A Python str is a TLA+ string.  A formatted message (an f-string) is *)
(*    a Text: the sequence of its pieces, in order.                        *)
(*  - Optional[x] is a sequence: <<>> is None, <<x>> is the value x.       *)
(*  - An Enum member is written by its member name ("RELATIONAL", "PII");  *)
(*    EnumValue gives its .value and EnumStr its str(), the text that      *)
(*    json.dump(..., default=str) writes for it.                           *)
(*  - A file is the value last written to it; a missing file is <<>>.      *)
(***************************************************************************)
EXTENDS Integers, Sequences, FiniteSets, TLC

VARIABLES
    definitions,  \* definitions/{name}.json          : name -> Optional[document]
    versions,     \* versions/{name}_versions.json    : name -> list of version records
    governance,   \* governance/{name}_governance.json: name -> Optional[record]
    migrations,   \* migrations/{name}_{version}_migration.sql : file name -> Optional[script]
    created,      \* history: name -> Optional[the schema a create_schema call stored]
    resource_files,     \* MetadataManager resources/{id}.json     : id -> Optional[document]
    relationship_files, \* MetadataManager relationships/{id}.json : id -> Optional[document]
    search_index,       \* MetadataManager search_index/index.json : id -> Optional[entry]
    catalog,            \* MetadataManager catalog/{system}.json   : system -> list of summaries
    access_policies,    \* DataGovernanceManager policies/{uuid}.json      : the documents, oldest first
    quality_rules,      \* DataGovernanceManager quality/rules/{uuid}.json : the documents, oldest first
    audit_log,          \* DataGovernanceManager audit/{date}.jsonl        : the events, oldest first
    integration_jobs,   \* DataIntegrationManager jobs/{uuid}.json         : the documents, oldest first
    integration_results, \* DataIntegrationManager results/{job}_{uuid}.json : the documents, oldest first
    lineage,            \* DataGovernanceManager lineage/nodes.json, edges.json : the two lists
    call,         \* the call being made / last made, with its arguments and, for a
                  \* call that runs in steps, its position and locals (per writer
                  \* in SpecWriters)
    ret           \* the values it returned so far (at most one but for the detector;
                  \* per writer in SpecWriters)

store == <<definitions, versions, governance, migrations>>
\* The trees of the other managers.
metadata_tree == <<resource_files, relationship_files, search_index, catalog>>
governance_tree == <<access_policies, quality_rules, audit_log>>
other_trees == <<metadata_tree, governance_tree, integration_jobs, integration_results, lineage>>
vars  == <<definitions, versions, governance, migrations, created,
           resource_files, relationship_files, search_index, catalog,
           access_policies, quality_rules, audit_log, integration_jobs,
           integration_results, lineage, call, ret>>

None == <<>>
Some(x) == <<x>>
IsNone(o) == o = <<>>
The(o) == o[1]

(***************************************************************************)
(* Bounds of the model.                                                    *)
(***************************************************************************)
MaxFields == 2      \* longest field list of an input schema

(***************************************************************************)
(* Enums.                                                                  *)
(***************************************************************************)
SchemaType == {"RELATIONAL", "DOCUMENT", "KEY_VALUE", "GRAPH", "TIME_SERIES", "COLUMNAR"}

DataClassification == {"PUBLIC", "INTERNAL", "CONFIDENTIAL", "RESTRICTED", "PII", "PHI"}

\* member.value
EnumValue(member) ==
    CASE member = "RELATIONAL"   -> "relational"
      [] member = "DOCUMENT"     -> "document"
      [] member = "KEY_VALUE"    -> "key_value"
      [] member = "GRAPH"        -> "graph"
      [] member = "TIME_SERIES"  -> "time_series"
      [] member = "COLUMNAR"     -> "columnar"
      [] member = "PUBLIC"       -> "public"
      [] member = "INTERNAL"     -> "internal"
      [] member = "CONFIDENTIAL" -> "confidential"
      [] member = "RESTRICTED"   -> "restricted"
      [] member = "PII"          -> "pii"
      [] member = "PHI"          -> "phi"

\* str(member) of a plain Enum: "ClassName.MEMBER"
EnumStr(member) ==
    CASE member = "RELATIONAL"   -> "SchemaType.RELATIONAL"
      [] member = "DOCUMENT"     -> "SchemaType.DOCUMENT"
      [] member = "KEY_VALUE"    -> "SchemaType.KEY_VALUE"
      [] member = "GRAPH"        -> "SchemaType.GRAPH"
      [] member = "TIME_SERIES"  -> "SchemaType.TIME_SERIES"
      [] member = "COLUMNAR"     -> "SchemaType.COLUMNAR"
      [] member = "PUBLIC"       -> "DataClassification.PUBLIC"
      [] member = "INTERNAL"     -> "DataClassification.INTERNAL"
      [] member = "CONFIDENTIAL" -> "DataClassification.CONFIDENTIAL"
      [] member = "RESTRICTED"   -> "DataClassification.RESTRICTED"
      [] member = "PII"          -> "DataClassification.PII"
      [] member = "PHI"          -> "DataClassification.PHI"

\* EnumClass(value): Optional[member]; None stands for the ValueError the
\* constructor raises when no member has that value.
EnumLookup(members, value) ==
    IF \E m \in members : EnumValue(m) = value
    THEN Some(CHOOSE m \in members : EnumValue(m) = value)
    ELSE None

(***************************************************************************)
(* str.upper() on the data-type spellings the model uses.                  *)
(***************************************************************************)
Upper(s) ==
    CASE s = "decimal" -> "DECIMAL"
      [] s = "string"  -> "STRING"
      [] s = "integer" -> "INTEGER"
      [] OTHER         -> s

(***************************************************************************)
(* SchemaManager._is_valid_data_type                                       *)
(***************************************************************************)
\* Variant with a whitelist for graph schemas.
valid_types_graph(schema_type) ==
    IF schema_type = "GRAPH" THEN {"STRING", "NODE", "EDGE"} ELSE {"STRING", "TEXT"}

valid_types(schema_type) ==
    CASE schema_type = "RELATIONAL" ->
            {"INTEGER", "BIGINT", "SMALLINT", "DECIMAL", "NUMERIC", "REAL", "DOUBLE",
             "VARCHAR", "CHAR", "TEXT", "BOOLEAN", "DATE", "TIME", "TIMESTAMP",
             "UUID", "JSON", "JSONB", "ARRAY"}
      [] schema_type = "DOCUMENT" ->
            {"STRING", "NUMBER", "BOOLEAN", "DATE", "OBJECT", "ARRAY", "NULL"}
      [] schema_type = "KEY_VALUE" ->
            {"STRING", "HASH", "LIST", "SET", "SORTED_SET", "BITMAP", "HYPERLOGLOG"}
      [] schema_type = "TIME_SERIES" ->
            {"TIMESTAMP", "DOUBLE", "INTEGER", "STRING", "BOOLEAN", "TAG"}
      [] schema_type = "COLUMNAR" ->
            {"INT32", "INT64", "FLOAT", "DOUBLE", "STRING", "BOOLEAN", "DATE", "TIMESTAMP"}
      [] OTHER -> {}

_is_valid_data_type(data_type, schema_type) ==
    Upper(data_type) \in valid_types(schema_type)

(***************************************************************************)
(* SchemaManager.validate_schema                                           *)
(***************************************************************************)
\* Variant that never reports a duplicate.
IsDuplicateNever(name, field_names) == FALSE

\* `field.name in field_names` (line 270).
IsDuplicate(name, field_names) == name \in field_names

\* The state of the field loop (lines 262-279) after `fields`, started in acc.
RECURSIVE FieldLoop(_, _, _)
FieldLoop(fields, schema_type, acc) ==
    IF fields = <<>> THEN acc
    ELSE LET field == Head(fields) IN
         IF field.name = ""
         THEN FieldLoop(Tail(fields), schema_type,
                        [acc EXCEPT !.errors = Append(@, <<"All fields must have a name">>)])
         ELSE LET e1 == IF IsDuplicate(field.name, acc.field_names)
                        THEN Append(acc.errors, <<"Duplicate field name: ", field.name>>)
                        ELSE acc.errors
                  pk == IF field.primary_key
                        THEN Append(acc.primary_keys, field.name)
                        ELSE acc.primary_keys
                  e2 == IF ~_is_valid_data_type(field.data_type, schema_type)
                        THEN Append(e1, <<"Invalid data type ", field.data_type,
                                          " for field ", field.name>>)
                        ELSE e1
              IN FieldLoop(Tail(fields), schema_type,
                           [field_names |-> acc.field_names \cup {field.name},
                            primary_keys |-> pk,
                            errors |-> e2])

\* The errors of the index loop (lines 289-292), appended to errors.
RECURSIVE IndexFieldLoop(_, _, _, _)
IndexFieldLoop(index, names, field_names, errors) ==
    IF names = <<>> THEN errors
    ELSE IndexFieldLoop(index, Tail(names), field_names,
            IF Head(names) \notin field_names
            THEN Append(errors, <<"Index ", index.name,
                                  " references non-existent field: ", Head(names)>>)
            ELSE errors)

RECURSIVE IndexLoop(_, _, _)
IndexLoop(indexes, field_names, errors) ==
    IF indexes = <<>> THEN errors
    ELSE IndexLoop(Tail(indexes), field_names,
                   IndexFieldLoop(Head(indexes), Head(indexes).fields, field_names, errors))

\* The errors of the relationship loop (lines 295-297), appended to errors.
RECURSIVE RelationshipLoop(_, _, _)
RelationshipLoop(relationships, field_names, errors) ==
    IF relationships = <<>> THEN errors
    ELSE LET relationship == Head(relationships) IN
         RelationshipLoop(Tail(relationships), field_names,
            IF relationship.source_field \notin field_names
            THEN Append(errors, <<"Relationship ", relationship.name,
                                  " references non-existent source field: ",
                                  relationship.source_field>>)
            ELSE errors)

\* "Strict" variant: warnings invalidate too.
ValidationResultStrict(errors, warnings) ==
    [valid |-> Len(errors) = 0 /\ Len(warnings) = 0, errors |-> errors, warnings |-> warnings]

\* The returned dict (lines 304-308).
ValidationResult(errors, warnings) ==
    [valid |-> Len(errors) = 0, errors |-> errors, warnings |-> warnings]

validate_schema(schema) ==
    LET e0 == IF schema.name = "" THEN << <<"Schema name is required">> >> ELSE <<>>
        e1 == IF schema.fields = <<>>
              THEN Append(e0, <<"Schema must have at least one field">>)
              ELSE e0
        loop == FieldLoop(schema.fields, schema.schema_type,
                          [field_names |-> {}, primary_keys |-> <<>>, errors |-> e1])
        w1 == IF schema.schema_type = "RELATIONAL" /\ loop.primary_keys = <<>>
              THEN << <<"Relational schema should have a primary key">> >>
              ELSE <<>>
        w2 == IF Len(loop.primary_keys) > 1
              THEN Append(w1, <<"Multiple primary keys detected, consider composite key design">>)
              ELSE w1
        e2 == IndexLoop(schema.indexes, loop.field_names, loop.errors)
        e3 == RelationshipLoop(schema.relationships, loop.field_names, e2)
        classified_fields == SelectSeq(schema.fields,
                                 LAMBDA f : f.classification \in {"PII", "PHI"})
        w3 == IF classified_fields # <<>> /\ IsNone(schema.retention_policy)
              THEN Append(w2, <<"Schema contains sensitive data but no retention policy defined">>)
              ELSE w2
    IN ValidationResult(e3, w3)

(***************************************************************************)
(* Text of the breaking-change descriptions.  These f-strings are read     *)
(* back by _generate_migration with `in` and str.split, so their pieces    *)
(* are the words and separators those readers cut at: " ", ":", "->".      *)
(* Tokens(s) cuts a str of the model into the same pieces.                 *)
(***************************************************************************)
Tokens(s) ==
    CASE s = ""                  -> <<>>
      [] s = "Removed field"     -> <<"Removed", " ", "field">>
      [] s = "a: b"              -> <<"a", ":", " ", "b">>
      [] OTHER                   -> <<s>>

\* f"Removed field: {field_name}" (line 452)
RemovedMsg(field_name) ==
    <<"Removed", " ", "field", ":", " ">> \o Tokens(field_name)

\* f"Changed data type for field {field_name}: {old} -> {new}" (line 461)
TypeMsg(field_name, old_type, new_type) ==
    <<"Changed", " ", "data", " ", "type", " ", "for", " ", "field", " ">>
        \o Tokens(field_name) \o <<":", " ">> \o Tokens(old_type)
        \o <<" ", "->", " ">> \o Tokens(new_type)

\* f"Field {field_name} changed from nullable to non-nullable" (line 464)
NullableMsg(field_name) ==
    <<"Field", " ">> \o Tokens(field_name)
        \o <<" ", "changed", " ", "from", " ", "nullable", " ", "to", " ", "non-nullable">>

\* f"Field {field_name} changed to primary key" (line 467)
PrimaryKeyMsg(field_name) ==
    <<"Field", " ">> \o Tokens(field_name)
        \o <<" ", "changed", " ", "to", " ", "primary", " ", "key">>

(***************************************************************************)
(* The dict {f.name: f for f in fields}: its keys in insertion order (a    *)
(* repeated key keeps its first place) and its lookup (a repeated key      *)
(* keeps its last value).                                                  *)
(***************************************************************************)
RECURSIVE DictKeys(_, _)
DictKeys(fields, seen) ==
    IF fields = <<>> THEN <<>>
    ELSE IF Head(fields).name \in seen
         THEN DictKeys(Tail(fields), seen)
         ELSE <<Head(fields).name>> \o DictKeys(Tail(fields), seen \cup {Head(fields).name})

DictHas(fields, name) == \E i \in 1..Len(fields) : fields[i].name = name

DictGet(fields, name) ==
    fields[CHOOSE i \in 1..Len(fields) :
              /\ fields[i].name = name
              /\ \A j \in (i+1)..Len(fields) : fields[j].name # name]

(***************************************************************************)
(* SchemaManager._detect_breaking_changes                                  *)
(***************************************************************************)
\* Widening reported too: any change of nullability.
NullableTightenedAny(old_field, new_field) == old_field.nullable # new_field.nullable

\* `old_field.nullable and not new_field.nullable` (line 463)
NullableTightened(old_field, new_field) == old_field.nullable /\ ~new_field.nullable

\* The first loop (lines 450-452) over the keys of old_fields.
RECURSIVE RemovedLoop(_, _, _)
RemovedLoop(keys, new_fields, breaking_changes) ==
    IF keys = <<>> THEN breaking_changes
    ELSE RemovedLoop(Tail(keys), new_fields,
            IF ~DictHas(new_fields, Head(keys))
            THEN Append(breaking_changes, RemovedMsg(Head(keys)))
            ELSE breaking_changes)

\* The entries one common field adds (lines 457-467), in the order of the ifs.
FieldChanges(field_name, old_field, new_field) ==
    (IF old_field.data_type # new_field.data_type
     THEN <<TypeMsg(field_name, old_field.data_type, new_field.data_type)>> ELSE <<>>)
    \o (IF NullableTightened(old_field, new_field)
        THEN <<NullableMsg(field_name)>> ELSE <<>>)
    \o (IF ~old_field.primary_key /\ new_field.primary_key
        THEN <<PrimaryKeyMsg(field_name)>> ELSE <<>>)

\* The second loop (lines 455-467) over the keys of old_fields.
RECURSIVE ChangedLoop(_, _, _, _)
ChangedLoop(keys, old_fields, new_fields, breaking_changes) ==
    IF keys = <<>> THEN breaking_changes
    ELSE ChangedLoop(Tail(keys), old_fields, new_fields,
            IF DictHas(new_fields, Head(keys))
            THEN breaking_changes \o FieldChanges(Head(keys),
                                        DictGet(old_fields, Head(keys)),
                                        DictGet(new_fields, Head(keys)))
            ELSE breaking_changes)

\* Variant with a single loop: each field's entries where the field stands.
RECURSIVE InterleavedLoop(_, _, _, _)
InterleavedLoop(keys, old_fields, new_fields, breaking_changes) ==
    IF keys = <<>> THEN breaking_changes
    ELSE InterleavedLoop(Tail(keys), old_fields, new_fields,
            IF DictHas(new_fields, Head(keys))
            THEN breaking_changes \o FieldChanges(Head(keys),
                                        DictGet(old_fields, Head(keys)),
                                        DictGet(new_fields, Head(keys)))
            ELSE Append(breaking_changes, RemovedMsg(Head(keys))))

_detect_breaking_changes_interleaved(old_schema, new_schema) ==
    InterleavedLoop(DictKeys(old_schema.fields, {}), old_schema.fields, new_schema.fields, <<>>)

_detect_breaking_changes(old_schema, new_schema) ==
    LET keys == DictKeys(old_schema.fields, {})
        removed == RemovedLoop(keys, new_schema.fields, <<>>)
    IN ChangedLoop(keys, old_schema.fields, new_schema.fields, removed)

(***************************************************************************)
(* The file tree.                                                          *)
(***************************************************************************)
StoreNames == {"orders"}
VersionLabels == {"v1", "v2"}

\* The parts of a name that "_" separates, on the names the model uses.
Segments(s) ==
    CASE s = "a_b" -> <<"a", "b">>
      [] s = "b_c" -> <<"b", "c">>
      [] OTHER     -> <<s>>

\* f"{schema_name}_{version.version}_migration.sql" (line 473): the file
\* name, as the sequence of the parts that "_" separates.
migration_file(schema_name, version) ==
    Segments(schema_name) \o Segments(version) \o <<"migration.sql">>

MigrationKeys == {migration_file(n, v) : n \in StoreNames, v \in VersionLabels}

\* resources/{resource_id}.json and relationships/{relationship_id}.json
ResourceIds == {"r1", "r2", "r3"}
RelationshipIds == {"e1", "e2"}
\* catalog/{system}.json, for the systems of the model
CatalogSystems == {<<"A">>, <<"internal">>}

EmptyCatalog ==
    /\ resource_files     = [i \in ResourceIds |-> None]
    /\ relationship_files = [i \in RelationshipIds |-> None]
    /\ search_index       = [i \in ResourceIds |-> None]
    /\ catalog            = [y \in CatalogSystems |-> <<>>]

\* The trees of a DataGovernanceManager and a DataIntegrationManager that
\* wrote nothing yet.  A file named by a new uuid is never written twice, so
\* such a directory is the list of the documents written to it.
NoLineage == [nodes |-> <<>>, edges |-> <<>>]

EmptyManagers ==
    /\ access_policies  = <<>>
    /\ quality_rules    = <<>>
    /\ audit_log        = <<>>
    /\ integration_jobs = <<>>
    /\ integration_results = <<>>
    /\ lineage = NoLineage

EmptyStore ==
    /\ definitions = [n \in StoreNames |-> None]
    /\ versions    = [n \in StoreNames |-> <<>>]
    /\ governance  = [n \in StoreNames |-> None]
    /\ migrations  = [k \in MigrationKeys |-> None]
    /\ created     = [n \in StoreNames |-> None]

(***************************************************************************)
(* Inputs.                                                                 *)
(***************************************************************************)
SeqsUpTo(S, n) == UNION {[1..k -> S] : k \in 0..n}

UniqueNames(fields) ==
    \A i, j \in 1..Len(fields) : i # j => fields[i].name # fields[j].name

Schema(name, schema_type, fields, indexes, relationships, retention_policy) ==
    [name |-> name, version |-> "v1", schema_type |-> schema_type, fields |-> fields,
     indexes |-> indexes, relationships |-> relationships, technical_owner |-> None,
     classification |-> "INTERNAL", retention_policy |-> retention_policy]

\* Candidate schemas handed to validate_schema.
ValFields ==
    [name : {"", "id", "amount"}, data_type : {"decimal", "STRING"}, nullable : {TRUE},
     primary_key : BOOLEAN, classification : {"INTERNAL", "PII"}]

\* With or without one index (on "id") and one relationship (from "amount").
ValLinks ==
    {[indexes |-> <<>>, relationships |-> <<>>],
     [indexes |-> <<[name |-> "ix", fields |-> <<"id">>]>>,
      relationships |-> <<[name |-> "rel", source_field |-> "amount"]>>]}

ValSchemas ==
    {Schema("orders", t, f, l.indexes, l.relationships, p) :
        t \in {"RELATIONAL", "DOCUMENT", "GRAPH"},
        f \in SeqsUpTo(ValFields, MaxFields),
        l \in ValLinks,
        p \in {None, Some("7y")}}

\* Schema pairs handed to _detect_breaking_changes: update_schema passes a
\* stored and a validated schema, so field names are unique in each.
DetFields ==
    [name : {"id", "amount"}, data_type : {"DECIMAL", "decimal"}, nullable : BOOLEAN,
     primary_key : BOOLEAN, classification : {"INTERNAL"}]

DetSchemas ==
    {Schema("orders", "RELATIONAL", f, <<>>, <<>>, None) :
        f \in {g \in SeqsUpTo(DetFields, MaxFields) : UniqueNames(g)}}

(***************************************************************************)
(* validate_schema on a candidate schema.                                  *)
(***************************************************************************)
InitValidate ==
    /\ EmptyStore
    /\ EmptyCatalog
    /\ EmptyManagers
    /\ call \in {[op |-> "validate_schema", schema |-> s] : s \in ValSchemas}
    /\ ret = <<>>

ValidateSchema ==
    /\ call.op = "validate_schema"
    /\ ret = <<>>
    /\ ret' = <<validate_schema(call.schema)>>
    /\ UNCHANGED <<store, created, other_trees, call>>

NextValidate == ValidateSchema

SpecValidate == InitValidate /\ [][NextValidate]_vars

(***************************************************************************)
(* _detect_breaking_changes on a pair of schemas, run MaxRuns times; ret   *)
(* collects the lists returned.                                            *)
(***************************************************************************)
MaxRuns == 2

InitDetect ==
    /\ EmptyStore
    /\ EmptyCatalog
    /\ EmptyManagers
    /\ call \in {[op |-> "_detect_breaking_changes", old_schema |-> o, new_schema |-> n] :
                     o \in DetSchemas, n \in DetSchemas}
    /\ ret = <<>>

DetectBreakingChanges ==
    /\ call.op = "_detect_breaking_changes"
    /\ Len(ret) < MaxRuns
    /\ ret' = Append(ret, _detect_breaking_changes(call.old_schema, call.new_schema))
    /\ UNCHANGED <<store, created, other_trees, call>>

NextDetect == DetectBreakingChanges

SpecDetect == InitDetect /\ [][NextDetect]_vars

(***************************************************************************)
(* Files.  json.dump(asdict(x), default=str) keeps str, bool, None, lists  *)
(* and dicts and writes str(member) for an Enum member.  Timestamps        *)
(* (created_at, updated_at, the clock) and the schema_hash, which nothing  *)
(* reads, carry no value here: `stamp` only names the timestamp key the    *)
(* document has.                                                           *)
(***************************************************************************)
FileExists(dir, key) == key \in DOMAIN dir /\ dir[key] # None

\* schema_data of create_schema (lines 170-172) and update_schema (228-230)
SchemaDocument(schema, stamp) ==
    [name |-> schema.name, version |-> schema.version,
     schema_type |-> EnumStr(schema.schema_type),
     fields |-> [i \in DOMAIN schema.fields |->
                    [schema.fields[i] EXCEPT !.classification = EnumStr(@)]],
     indexes |-> schema.indexes, relationships |-> schema.relationships,
     technical_owner |-> schema.technical_owner,
     classification |-> EnumStr(schema.classification),
     retention_policy |-> schema.retention_policy,
     stamp |-> stamp]

\* A document in the format get_schema reads: each enum by its value, as
\* in its own default `schema_data.get("classification", "internal")`.
ValueDocument(schema) ==
    [SchemaDocument(schema, "created_at") EXCEPT
        !.schema_type = EnumValue(schema.schema_type),
        !.classification = EnumValue(schema.classification),
        !.fields = [i \in DOMAIN schema.fields |->
                       [schema.fields[i] EXCEPT !.classification = EnumValue(@)]]]

\* asdict(version) as _save_version writes it (line 407)
VersionRecord(version) ==
    [version |-> version.version, created_by |-> version.created_by,
     changes |-> version.changes, breaking_changes |-> version.breaking_changes]

(***************************************************************************)
(* SchemaManager.schema_exists, SchemaManager.get_schema                   *)
(***************************************************************************)
\* Variant that finds no file.
schema_exists_never(schema_name) == FALSE

schema_exists(schema_name) == FileExists(definitions, schema_name)

\* None when the file is missing and when an exception is caught: the
\* ValueError of SchemaType(...) or DataClassification(...) on a string that
\* is no member's value.  SchemaField(**field) takes each field as stored.
get_schema(schema_name) ==
    IF ~FileExists(definitions, schema_name) THEN None
    ELSE LET schema_data == The(definitions[schema_name])
             schema_type == EnumLookup(SchemaType, schema_data.schema_type)
             classification == EnumLookup(DataClassification, schema_data.classification)
         IN IF IsNone(schema_type) \/ IsNone(classification) THEN None
            ELSE Some([name |-> schema_data.name, version |-> schema_data.version,
                       schema_type |-> The(schema_type),
                       fields |-> schema_data.fields,
                       indexes |-> schema_data.indexes,
                       relationships |-> schema_data.relationships,
                       technical_owner |-> schema_data.technical_owner,
                       classification |-> The(classification),
                       retention_policy |-> schema_data.retention_policy])

(***************************************************************************)
(* SchemaManager._save_version, SchemaManager._create_governance_record    *)
(***************************************************************************)
\* The list _save_version writes back: the list read, with the record appended.
SavedVersions(old_versions, version) == Append(old_versions, VersionRecord(version))

GovernanceRecord(schema) ==
    LET sensitive_fields == SelectSeq(schema.fields,
                                LAMBDA f : f.classification \in {"PII", "PHI"})
    IN [schema_name |-> schema.name,
        technical_owner |-> schema.technical_owner,
        classification |-> EnumValue(schema.classification),
        retention_policy |-> schema.retention_policy,
        compliance_requirements |->
            IF sensitive_fields = <<>> THEN <<>>
            ELSE <<"GDPR", "privacy_by_design">> \o
                 (IF \E i \in DOMAIN sensitive_fields : sensitive_fields[i].classification = "PHI"
                  THEN <<"HIPAA">> ELSE <<>>)]

(***************************************************************************)
(* str operations on Text: `pattern in text` and text.split(sep).          *)
(***************************************************************************)
MatchAt(text, pattern, i) ==
    /\ i + Len(pattern) - 1 <= Len(text)
    /\ \A k \in 1..Len(pattern) : text[i + k - 1] = pattern[k]

Contains(text, pattern) == \E i \in 1..Len(text) : MatchAt(text, pattern, i)

RECURSIVE Split(_, _)
Split(text, sep) ==
    IF ~Contains(text, sep) THEN <<text>>
    ELSE LET i == CHOOSE k \in 1..Len(text) :
                     /\ MatchAt(text, sep, k)
                     /\ \A l \in 1..(k - 1) : ~MatchAt(text, sep, l)
         IN <<SubSeq(text, 1, i - 1)>> \o Split(SubSeq(text, i + Len(sep), Len(text)), sep)

(***************************************************************************)
(* SchemaManager._generate_migration                                       *)
(***************************************************************************)
\* The lines one change adds (lines 485-493); None for the IndexError of a
\* split that has too few parts.
ChangeLines(schema_name, change) ==
    LET comment == <<"-- ">> \o change IN
    IF Contains(change, <<"Removed", " ", "field">>)
    THEN LET parts == Split(change, <<":", " ">>) IN
         IF Len(parts) < 2 THEN None
         ELSE Some(<<comment,
                     <<"ALTER TABLE ", schema_name, " DROP COLUMN ">> \o parts[2] \o <<";">> >>)
    ELSE IF Contains(change, <<"Changed", " ", "data", " ", "type">>)
    THEN LET words == Split(change, <<" ">>)
             sides == Split(change, <<" ", "->", " ">>)
         IN IF Len(words) < 6 \/ Len(sides) < 2 THEN None
            ELSE Some(<<comment,
                        <<"ALTER TABLE ", schema_name, " ALTER COLUMN ">> \o words[6]
                            \o <<" TYPE ">> \o sides[2] \o <<";">> >>)
    ELSE Some(<<comment>>)

RECURSIVE MigrationLoop(_, _, _)
MigrationLoop(schema_name, breaking_changes, migration_sql) ==
    IF breaking_changes = <<>> THEN Some(migration_sql)
    ELSE LET lines == ChangeLines(schema_name, Head(breaking_changes)) IN
         IF IsNone(lines) THEN None
         ELSE MigrationLoop(schema_name, Tail(breaking_changes), migration_sql \o The(lines))

\* Optional[the script written]: None when the loop raised before the write.
_generate_migration(schema_name, old_schema, new_schema, version) ==
    LET head == << <<"-- Migration for ", schema_name, " to version ", version.version>>,
                   <<"-- Generated at: ">>,
                   <<"-- Description: ">>,
                   <<>> >>
        body == MigrationLoop(schema_name,
                              _detect_breaking_changes(old_schema, new_schema), head)
    IN IF IsNone(body) THEN None
       ELSE Some(The(body) \o << <<>>, <<"-- End of migration">> >>)

(***************************************************************************)
(* SchemaManager.create_schema                                             *)
(***************************************************************************)
\* Variant that lets every schema through.
ValidationFailedNever(validation_result) == FALSE

\* `if not validation_result["valid"]` (lines 156, 212)
ValidationFailed(validation_result) == ~validation_result.valid

InitialVersion(schema) ==
    [version |-> schema.version,
     created_by |-> IF IsNone(schema.technical_owner) THEN "system"
                    ELSE The(schema.technical_owner),
     changes |-> <<"Initial schema creation">>,
     breaking_changes |-> FALSE]

\* The writes of a create_schema call that returns `returned`.
create_schema(schema, returned) ==
    IF ValidationFailed(validate_schema(schema))
    THEN /\ returned = FALSE
         /\ UNCHANGED <<store, created>>
    ELSE IF schema_exists(schema.name)
    THEN /\ returned = FALSE
         /\ UNCHANGED <<store, created>>
    ELSE /\ definitions' = [definitions EXCEPT ![schema.name] =
                               Some(SchemaDocument(schema, "created_at"))]
         /\ versions' = [versions EXCEPT ![schema.name] =
                            SavedVersions(@, InitialVersion(schema))]
         /\ governance' = [governance EXCEPT ![schema.name] =
                              Some(GovernanceRecord(schema))]
         /\ created' = [created EXCEPT ![schema.name] = Some(schema)]
         /\ returned = TRUE
         /\ UNCHANGED migrations

CreateSchema(schema) ==
    /\ call' = [op |-> "create_schema", schema |-> schema]
    /\ UNCHANGED other_trees
    /\ \E returned \in BOOLEAN :
          /\ create_schema(schema, returned)
          /\ ret' = <<returned>>

(***************************************************************************)
(* SchemaManager.update_schema                                             *)
(***************************************************************************)
\* `version_info.breaking_changes = len(breaking_changes) > 0` (line 218)
WithBreakingFlag(version_info, breaking_changes) ==
    [version_info EXCEPT !.breaking_changes = Len(breaking_changes) > 0]

UpdateSchema(schema, version_info) ==
    /\ call' = [op |-> "update_schema", schema |-> schema, version_info |-> version_info]
    /\ UNCHANGED <<governance, created, other_trees>>
    /\ IF ~schema_exists(schema.name)
       THEN ret' = <<FALSE>> /\ UNCHANGED <<definitions, versions, migrations>>
       ELSE LET current_schema == get_schema(schema.name) IN
       IF IsNone(current_schema)
       THEN ret' = <<FALSE>> /\ UNCHANGED <<definitions, versions, migrations>>
       ELSE IF ValidationFailed(validate_schema(schema))
       THEN ret' = <<FALSE>> /\ UNCHANGED <<definitions, versions, migrations>>
       ELSE LET breaking_changes == _detect_breaking_changes(The(current_schema), schema)
                version == WithBreakingFlag(version_info, breaking_changes)
                script == _generate_migration(schema.name, The(current_schema), schema, version)
            IN /\ definitions' = [definitions EXCEPT ![schema.name] =
                                     Some(SchemaDocument(schema, "updated_at"))]
               /\ versions' = [versions EXCEPT ![schema.name] = SavedVersions(@, version)]
               /\ IF ~version.breaking_changes
                  THEN ret' = <<TRUE>> /\ UNCHANGED migrations
                  ELSE IF IsNone(script)
                  THEN ret' = <<FALSE>> /\ UNCHANGED migrations
                  ELSE /\ migrations' = [migrations EXCEPT
                                            ![migration_file(schema.name, version.version)] = script]
                       /\ ret' = <<TRUE>>

(***************************************************************************)
(* SchemaManager.get_schema as a call.                                     *)
(***************************************************************************)
GetSchema(schema_name) ==
    /\ call' = [op |-> "get_schema", schema_name |-> schema_name]
    /\ ret' = <<get_schema(schema_name)>>
    /\ UNCHANGED <<store, created, other_trees>>

(***************************************************************************)
(* Calls on the manager, one at a time.                                    *)
(***************************************************************************)
\* Field lists of the schemas passed in: lists with unique names, and the
\* lists that repeat one field.
LifeFields ==
    [name : {"id", "Removed field"}, data_type : {"DECIMAL"}, nullable : BOOLEAN,
     primary_key : {FALSE}, classification : {"INTERNAL"}]

LifeFieldLists ==
    {g \in SeqsUpTo(LifeFields, MaxFields) :
        UniqueNames(g) \/ (Len(g) >= 2 /\ \A i \in DOMAIN g : g[i] = g[1])}

LifeSchemas ==
    {Schema(n, "RELATIONAL", f, <<>>, <<>>, None) :
        n \in {"", "orders"}, f \in LifeFieldLists}

VersionInfos ==
    [version : VersionLabels, created_by : {"dev"}, changes : {<<"edit">>},
     breaking_changes : {FALSE}]

Next ==
    \/ \E schema \in LifeSchemas : CreateSchema(schema)
    \/ \E schema \in LifeSchemas, version_info \in VersionInfos :
          UpdateSchema(schema, version_info)
    \/ \E schema_name \in StoreNames : GetSchema(schema_name)

\* A manager constructed over a new, empty tree.
Init ==
    /\ EmptyStore
    /\ EmptyCatalog
    /\ EmptyManagers
    /\ call = [op |-> "__init__"]
    /\ ret = <<>>

Spec == Init /\ [][Next]_vars

\* A manager constructed over a tree that already holds definition documents
\* in the format get_schema reads, with or without a version history:
\* __init__ adopts an existing tree (mkdir(exist_ok=True), lines 145-149).
SeedVersion ==
    [version |-> "v1", created_by |-> "import", changes |-> <<"imported">>,
     breaking_changes |-> FALSE]

InitSeeded ==
    /\ \E present \in SUBSET StoreNames :
         \E seed \in [present -> {s \in LifeSchemas : validate_schema(s).valid}] :
         \E history \in [present -> {<<>>, <<SeedVersion>>}] :
            /\ \A n \in present : seed[n].name = n
            /\ definitions = [n \in StoreNames |->
                                 IF n \in present THEN Some(ValueDocument(seed[n])) ELSE None]
            /\ versions = [n \in StoreNames |-> IF n \in present THEN history[n] ELSE <<>>]
    /\ governance = [n \in StoreNames |-> None]
    /\ migrations = [k \in MigrationKeys |-> None]
    /\ created = [n \in StoreNames |-> None]
    /\ EmptyCatalog
    /\ EmptyManagers
    /\ call = [op |-> "__init__"]
    /\ ret = <<>>

SpecSeeded == InitSeeded /\ [][Next]_vars

(***************************************************************************)
(* _generate_migration on a pair of schemas, as update_schema calls it     *)
(* (line 240): a stored schema and a validated one, so each has a field    *)
(* and field names are non-empty and unique in each.  ret holds how the    *)
(* call ended: "None", its return value, or the exception that left it.    *)
(***************************************************************************)
MigOldFields ==
    [name : {"amount", "a: b", "Removed field"}, data_type : {"DECIMAL"},
     nullable : {TRUE}, primary_key : {FALSE}, classification : {"INTERNAL"}]

MigNewFields ==
    [name : {"amount", "a: b", "Removed field"}, data_type : {"DECIMAL", "TEXT"},
     nullable : BOOLEAN, primary_key : BOOLEAN, classification : {"INTERNAL"}]

MigSchemas(fields) ==
    {Schema("orders", "RELATIONAL", f, <<>>, <<>>, None) :
        f \in {g \in SeqsUpTo(fields, MaxFields) : g # <<>> /\ UniqueNames(g)}}

MigVersion ==
    [version |-> "v2", created_by |-> "dev", changes |-> <<"edit">>,
     breaking_changes |-> TRUE]

InitMigrate ==
    /\ EmptyStore
    /\ EmptyCatalog
    /\ EmptyManagers
    /\ call \in {[op |-> "_generate_migration", schema_name |-> "orders",
                  old_schema |-> o, new_schema |-> n, version |-> MigVersion] :
                     o \in MigSchemas(MigOldFields), n \in MigSchemas(MigNewFields)}
    /\ ret = <<>>

GenerateMigration ==
    /\ call.op = "_generate_migration"
    /\ ret = <<>>
    /\ LET script == _generate_migration(call.schema_name, call.old_schema,
                                         call.new_schema, call.version)
       IN IF IsNone(script)
          THEN ret' = <<"IndexError">> /\ UNCHANGED migrations
          ELSE /\ ret' = <<"None">>
               /\ migrations' = [migrations EXCEPT
                                    ![migration_file(call.schema_name, call.version.version)] = script]
    /\ UNCHANGED <<definitions, versions, governance, created, other_trees, call>>

NextMigrate == GenerateMigration

SpecMigrate == InitMigrate /\ [][NextMigrate]_vars

(***************************************************************************)
(* MetadataManager (metadata/metadata_manager.py).                         *)
(* A str that is searched is the sequence of its characters.  A resource   *)
(* carries the fields the catalog code reads: resource_id, name, type,     *)
(* system, path, description, owner, metadata (the dict as the list of its *)
(* attributes, in insertion order, each under its name) and tags.          *)
(***************************************************************************)
ResourceType == {"TABLE", "VIEW", "SCHEMA"}

\* member.value, a str
ResourceTypeValue(member) ==
    CASE member = "TABLE" -> <<"table">>
      [] member = "VIEW"  -> <<"view">>
      [] member = "SCHEMA" -> <<"schema">>

\* str.lower()
LowerChar(c) ==
    CASE c = "A" -> "a"
      [] c = "B" -> "b"
      [] c = "C" -> "c"
      [] OTHER   -> c

Lower(text) == [i \in DOMAIN text |-> LowerChar(text[i])]

\* `pattern in text` for two str: the empty str is in every str.
StrIn(pattern, text) == \E i \in 1..(Len(text) + 1) : MatchAt(text, pattern, i)

\* str(attr.value): the attribute values of the model are str, which str()
\* returns as they are.
Str(attr) == attr.value

\* Variant of the tags loop without its break: every matching tag counts.
RECURSIVE TagLoopNoBreak(_, _, _)
TagLoopNoBreak(tags, query_lower, acc) ==
    IF tags = <<>> THEN acc
    ELSE TagLoopNoBreak(Tail(tags), query_lower,
            IF StrIn(query_lower, Lower(Head(tags)))
            THEN [score |-> acc.score + 3,
                  matching_fields |-> Append(acc.matching_fields, <<"tags">>)]
            ELSE acc)

\* `for tag in resource.tags: if ...: score += 3.0; ...; break` (lines 806-811)
RECURSIVE TagLoop(_, _, _)
TagLoop(tags, query_lower, acc) ==
    IF tags = <<>> THEN acc
    ELSE IF StrIn(query_lower, Lower(Head(tags)))
         THEN [score |-> acc.score + 3,
               matching_fields |-> Append(acc.matching_fields, <<"tags">>)]
         ELSE TagLoop(Tail(tags), query_lower, acc)

\* `for key, attr in resource.metadata.items(): ...; break` (lines 814-819)
RECURSIVE MetadataLoop(_, _, _)
MetadataLoop(items, query_lower, acc) ==
    IF items = <<>> THEN acc
    ELSE IF StrIn(query_lower, Lower(Str(Head(items))))
         THEN [score |-> acc.score + 2,
               matching_fields |-> Append(acc.matching_fields,
                                          <<"metadata.", Head(items).name>>)]
         ELSE MetadataLoop(Tail(items), query_lower, acc)

\* A value is falsy when it is None or empty: Optional[x] as <<>> / <<x>>.
Truthy(o) == ~IsNone(o) /\ The(o) # <<>>

_calculate_search_score(resource, query) ==
    LET query_lower == Lower(query)
        a0 == [score |-> 0, matching_fields |-> <<>>]
        a1 == IF StrIn(query_lower, Lower(resource.name))
              THEN [score |-> a0.score + 10,
                    matching_fields |-> Append(a0.matching_fields, <<"name">>)]
              ELSE a0
        a2 == IF Truthy(resource.description)
                 /\ StrIn(query_lower, Lower(The(resource.description)))
              THEN [score |-> a1.score + 5,
                    matching_fields |-> Append(a1.matching_fields, <<"description">>)]
              ELSE a1
        a3 == IF Truthy(resource.tags)
              THEN TagLoop(The(resource.tags), query_lower, a2) ELSE a2
        a4 == IF Truthy(resource.metadata)
              THEN MetadataLoop(The(resource.metadata), query_lower, a3) ELSE a3
    IN IF StrIn(query_lower, Lower(resource.system))
       THEN [score |-> a4.score + 1,
             matching_fields |-> Append(a4.matching_fields, <<"system">>)]
       ELSE a4

(***************************************************************************)
(* _calculate_search_score on a resource and a query.                      *)
(***************************************************************************)
Queries == {<<>>, <<"a">>, <<"A", "b">>, <<"B">>, <<"c">>}

ScoreTags ==
    {None, Some(<<>>), Some(<< <<"a">> >>), Some(<< <<"b">>, <<"A", "B">> >>),
     Some(<< <<"a", "b">>, <<"a">> >>)}

StrAttr(name, value) == [name |-> name, value |-> value, type |-> "string"]

ScoreMetadata ==
    {None, Some(<<>>), Some(<<StrAttr("k1", <<"A">>)>>),
     Some(<<StrAttr("k1", <<"b">>), StrAttr("k2", <<"a", "b">>)>>),
     Some(<<StrAttr("k1", <<"c">>), StrAttr("k2", <<"C">>)>>)}

ScoreResources ==
    [resource_id : {"r1"}, name : {<<"a", "b">>, <<"B", "a">>, <<"b">>},
     type : {"TABLE"}, system : {<<"A">>, <<"b">>}, path : {None},
     description : {None, Some(<<>>), Some(<<"A", "B">>), Some(<<"b">>)},
     owner : {None}, metadata : ScoreMetadata, tags : ScoreTags]

InitScore ==
    /\ EmptyStore
    /\ EmptyCatalog
    /\ EmptyManagers
    /\ call \in {[op |-> "_calculate_search_score", resource |-> r, query |-> q] :
                    r \in ScoreResources, q \in Queries}
    /\ ret = <<>>

CalculateSearchScore ==
    /\ call.op = "_calculate_search_score"
    /\ ret = <<>>
    /\ ret' = <<_calculate_search_score(call.resource, call.query)>>
    /\ UNCHANGED <<store, created, other_trees, call>>

NextScore == CalculateSearchScore

SpecScore == InitScore /\ [][NextScore]_vars

(***************************************************************************)
(* MetadataManager: resources.  The rules/ directory of the model is       *)
(* empty, so _apply_metadata_rules adds nothing; timestamps carry no value.*)
(***************************************************************************)
\* ResourceType(value): Optional[member], None for the ValueError
ResourceTypeLookup(value) ==
    IF \E m \in ResourceType : ResourceTypeValue(m) = value
    THEN Some(CHOOSE m \in ResourceType : ResourceTypeValue(m) = value)
    ELSE None

_validate_resource(resource) == resource.name # <<>> /\ resource.system # <<>>

_serialize_resource(resource) == [resource EXCEPT !.type = ResourceTypeValue(@)]

\* Optional[DataResource]: None for the exception of ResourceType(...).
_deserialize_resource(resource_data) ==
    LET type == ResourceTypeLookup(resource_data.type)
    IN IF IsNone(type) THEN None
       ELSE Some([resource_data EXCEPT !.type = The(type)])

\* The entry _update_search_index stores (lines 870-877)
IndexEntry(resource) ==
    [name |-> resource.name, type |-> ResourceTypeValue(resource.type),
     system |-> resource.system, description |-> resource.description,
     tags |-> IF Truthy(resource.tags) THEN The(resource.tags) ELSE <<>>]

\* The list _update_catalog writes back (lines 898-911)
CatalogEntries(old_entries, resource) ==
    Append(SelectSeq(old_entries, LAMBDA r : r.id # resource.resource_id),
           [id |-> resource.resource_id, name |-> resource.name,
            type |-> ResourceTypeValue(resource.type), path |-> resource.path])

\* str(uuid.uuid4()): an id no file has yet
FreshIds(dir) == {i \in DOMAIN dir : dir[i] = None}

RegisterResource(resource) ==
    /\ call' = [op |-> "register_resource", resource |-> resource]
    /\ UNCHANGED <<store, created, relationship_files, governance_tree, integration_jobs, integration_results, lineage>>
    /\ \E resource_id \in (IF resource.resource_id = "" THEN FreshIds(resource_files)
                           ELSE {resource.resource_id}) :
         LET registered == [resource EXCEPT !.resource_id = resource_id] IN
         IF ~_validate_resource(registered)
         THEN ret' = <<FALSE>> /\ UNCHANGED <<resource_files, search_index, catalog>>
         ELSE /\ resource_files' = [resource_files EXCEPT ![resource_id] =
                                       Some(_serialize_resource(registered))]
              /\ search_index' = [search_index EXCEPT ![resource_id] =
                                     Some(IndexEntry(registered))]
              /\ catalog' = [catalog EXCEPT ![registered.system] =
                                CatalogEntries(@, registered)]
              /\ ret' = <<TRUE>>

get_resource(resource_id) ==
    IF ~FileExists(resource_files, resource_id) THEN None
    ELSE _deserialize_resource(The(resource_files[resource_id]))

(***************************************************************************)
(* MetadataManager.search_resources                                        *)
(***************************************************************************)
\* A dict of filters is the list of its items; the loop returns False at the
\* first item the resource fails and skips the keys it does not know.
RECURSIVE _matches_filters(_, _)
_matches_filters(resource, filters) ==
    IF filters = <<>> THEN TRUE
    ELSE LET filter_key == Head(filters).key
             filter_value == Head(filters).value
         IN IF \/ filter_key = "type" /\ ResourceTypeValue(resource.type) # filter_value
               \/ filter_key = "system" /\ resource.system # filter_value
               \/ filter_key = "owner" /\ resource.owner # Some(filter_value)
               \/ filter_key = "tags"
                    /\ (\/ ~Truthy(resource.tags)
                        \/ \A i \in DOMAIN The(resource.tags) :
                              The(resource.tags)[i] # filter_value)
            THEN FALSE
            ELSE _matches_filters(resource, Tail(filters))

_generate_snippet(resource, query) ==
    IF Truthy(resource.description) THEN The(resource.description)
    ELSE ResourceTypeValue(resource.type) \o <<" in ">> \o resource.system

\* The loop over the files (lines 218-238), in the order glob yields them;
\* None for an exception.
RECURSIVE ResultLoop(_, _, _, _)
ResultLoop(files, query, filters, results) ==
    IF files = <<>> THEN Some(results)
    ELSE LET resource == _deserialize_resource(Head(files)) IN
         IF IsNone(resource) THEN None
         ELSE IF Truthy(filters) /\ ~_matches_filters(The(resource), The(filters))
         THEN ResultLoop(Tail(files), query, filters, results)
         ELSE LET scored == _calculate_search_score(The(resource), query) IN
              ResultLoop(Tail(files), query, filters,
                  IF scored.score > 0
                  THEN Append(results,
                              [resource |-> The(resource), score |-> scored.score,
                               matching_fields |-> scored.matching_fields,
                               snippet |-> _generate_snippet(The(resource), query)])
                  ELSE results)

\* results.sort(key=lambda r: r.score, reverse=True): a stable sort, so of
\* two results with equal scores the one found first stays first.
RECURSIVE InsertByScore(_, _)
InsertByScore(sorted, result) ==
    IF sorted = <<>> THEN <<result>>
    ELSE IF Head(sorted).score >= result.score
         THEN <<Head(sorted)>> \o InsertByScore(Tail(sorted), result)
         ELSE <<result>> \o sorted

RECURSIVE SortLoop(_, _)
SortLoop(results, sorted) ==
    IF results = <<>> THEN sorted
    ELSE SortLoop(Tail(results), InsertByScore(sorted, Head(results)))

\* Variant without the sort: the results in the order they were found.
SortByArrival(results) == results

SortByScore(results) == SortLoop(results, <<>>)

\* results[:limit]
Slice(results, limit) ==
    LET stop == IF limit >= 0 THEN limit ELSE Len(results) + limit
    IN SubSeq(results, 1, IF stop > Len(results) THEN Len(results)
                          ELSE IF stop < 0 THEN 0 ELSE stop)

\* The orders in which glob may yield the files there are.
GlobOrders(dir) ==
    LET present == {i \in DOMAIN dir : dir[i] # None}
    IN {o \in [1..Cardinality(present) -> present] :
           \A i, j \in DOMAIN o : i # j => o[i] # o[j]}

SearchResources(query, filters, limit) ==
    /\ call' = [op |-> "search_resources", query |-> query, filters |-> filters,
                limit |-> limit]
    /\ \E order \in GlobOrders(resource_files) :
         LET files == [i \in DOMAIN order |-> The(resource_files[order[i]])]
             results == ResultLoop(files, query, filters, <<>>)
         IN ret' = <<IF IsNone(results) THEN <<>>
                     ELSE Slice(SortByScore(The(results)), limit)>>
    /\ UNCHANGED <<store, created, other_trees>>

(***************************************************************************)
(* MetadataManager.add_relationship                                        *)
(***************************************************************************)
\* Variant that looks up the source only.
_validate_relationship_source_only(relationship) ==
    /\ relationship.source_resource_id # ""
    /\ relationship.target_resource_id # ""
    /\ ~IsNone(get_resource(relationship.source_resource_id))

_validate_relationship(relationship) ==
    IF relationship.source_resource_id = "" \/ relationship.target_resource_id = ""
    THEN FALSE
    ELSE LET source_exists == ~IsNone(get_resource(relationship.source_resource_id))
             target_exists == ~IsNone(get_resource(relationship.target_resource_id))
         IN source_exists /\ target_exists

\* asdict(relationship) under json.dump(..., default=str): the type as str(member)
RelationshipDocument(relationship) ==
    [relationship EXCEPT !.type = <<"RelationshipType.", @>>]

AddRelationship(relationship) ==
    /\ call' = [op |-> "add_relationship", relationship |-> relationship]
    /\ UNCHANGED <<store, created, resource_files, search_index, catalog,
                   governance_tree, integration_jobs, integration_results, lineage>>
    /\ \E relationship_id \in (IF relationship.relationship_id = ""
                               THEN FreshIds(relationship_files)
                               ELSE {relationship.relationship_id}) :
         LET added == [relationship EXCEPT !.relationship_id = relationship_id] IN
         IF ~_validate_relationship(added)
         THEN ret' = <<FALSE>> /\ UNCHANGED relationship_files
         ELSE /\ relationship_files' = [relationship_files EXCEPT ![relationship_id] =
                                           Some(RelationshipDocument(added))]
              /\ ret' = <<TRUE>>

(***************************************************************************)
(* Calls on the catalog: registering and searching.                        *)
(***************************************************************************)
Resource(resource_id, name, type, description, tags) ==
    [resource_id |-> resource_id, name |-> name, type |-> type, system |-> <<"A">>,
     path |-> None, description |-> description, owner |-> None, metadata |-> None,
     tags |-> tags]

\* Two resources that can be stored and one without a name; each under a
\* given id or, with "", under a generated one.
SearchResourceInputs ==
    UNION {{Resource(i, <<"a", "b">>, "TABLE", Some(<<"A", "B">>), None),
            Resource(i, <<"b">>, "VIEW", None, Some(<< <<"a">> >>)),
            Resource(i, <<>>, "TABLE", None, None)} : i \in {"", "r1"}}

SearchQueries == {<<>>, <<"a", "b">>, <<"B">>}

SearchFilters ==
    {None, Some(<<>>), Some(<<[key |-> "type", value |-> <<"table">>]>>),
     Some(<<[key |-> "tags", value |-> <<"a">>], [key |-> "bogus", value |-> <<"a">>]>>)}

SearchLimits == {0, 1, 2}

NextSearch ==
    \/ \E resource \in SearchResourceInputs : RegisterResource(resource)
    \/ \E query \in SearchQueries, filters \in SearchFilters, limit \in SearchLimits :
          SearchResources(query, filters, limit)

InitCatalog ==
    /\ EmptyStore
    /\ EmptyCatalog
    /\ EmptyManagers
    /\ call = [op |-> "__init__"]
    /\ ret = <<>>

SpecSearch == InitCatalog /\ [][NextSearch]_vars

(***************************************************************************)
(* Calls on the catalog: registering and relating.                         *)
(***************************************************************************)
RelationResourceInputs ==
    UNION {{Resource(i, <<"a", "b">>, "TABLE", None, None),
            Resource(i, <<>>, "TABLE", None, None)} : i \in {"", "r1", "r2"}}

RelationshipInputs ==
    [relationship_id : {"", "e1"}, source_resource_id : {"", "r1", "r2", "zz"},
     target_resource_id : {"", "r1", "r2", "zz"}, type : {"DEPENDS_ON"},
     strength : {1}]

NextRelations ==
    \/ \E resource \in RelationResourceInputs : RegisterResource(resource)
    \/ \E relationship \in RelationshipInputs : AddRelationship(relationship)

SpecRelations == InitCatalog /\ [][NextRelations]_vars

(***************************************************************************)
(* DataGovernanceManager.create_access_policy, create_quality_rule and     *)
(* DataIntegrationManager.create_integration_job, as the lists they leave. *)
(* A document written under a new uuid carries, as its id, the number of   *)
(* that uuid among those the manager generated for the directory.          *)
(***************************************************************************)
\* AccessLevel(value), DataQualityRule(value), IntegrationPattern(value):
\* Optional[member], None for the ValueError.
AccessLevelOf(value) ==
    CASE value = "read"   -> Some("READ")
      [] value = "write"  -> Some("WRITE")
      [] value = "delete" -> Some("DELETE")
      [] value = "admin"  -> Some("ADMIN")
      [] OTHER            -> None

DataQualityRuleOf(value) ==
    CASE value = "not_null"     -> Some("NOT_NULL")
      [] value = "unique"       -> Some("UNIQUE")
      [] value = "completeness" -> Some("COMPLETENESS")
      [] OTHER                  -> None

IntegrationPatternOf(value) ==
    CASE value = "etl"   -> Some("ETL")
      [] value = "elt"   -> Some("ELT")
      [] value = "streaming" -> Some("STREAMING")
      [] value = "cdc"   -> Some("CDC")
      [] value = "batch" -> Some("BATCH")
      [] value = "micro_batch"  -> Some("MICRO_BATCH")
      [] value = "event_driven" -> Some("EVENT_DRIVEN")
      [] value = "sync_replication"  -> Some("SYNC_REPLICATION")
      [] value = "async_replication" -> Some("ASYNC_REPLICATION")
      [] OTHER           -> None

_validate_access_policy(policy) ==
    /\ policy.name # <<>> /\ policy.resource_pattern # <<>>
    /\ policy.principals # <<>>
    /\ policy.access_levels # <<>>

\* asdict(policy) under json.dump(..., default=str)
PolicyDocument(policy, policy_id) ==
    [policy EXCEPT !.policy_id = policy_id,
                   !.access_levels = [i \in DOMAIN @ |-> <<"AccessLevel.", @[i]>>]]

\* The policies and the audit log after create_access_policy(policy), for a
\* policy without an id.
PoliciesAfter(policy) ==
    IF ~_validate_access_policy(policy)
    THEN [access_policies |-> access_policies, audit_log |-> audit_log]
    ELSE [access_policies |->
              Append(access_policies, PolicyDocument(policy, Len(access_policies) + 1)),
          audit_log |->
              Append(audit_log,
                     [event_type |-> "access_policy_created",
                      details |-> [policy_id |-> Len(access_policies) + 1,
                                   created_by |-> policy.created_by,
                                   resource_pattern |-> policy.resource_pattern]])]

\* The rules after create_quality_rule(rule), for a rule without an id.
RulesAfter(rules, rule) ==
    Append(rules, [rule EXCEPT !.rule_id = Len(rules) + 1,
                               !.rule_type = <<"DataQualityRule.", @>>])

\* `source.type not in self.connectors` (lines 294-298, 555-558)
Connectors == {"RELATIONAL_DB", "REST_API"}

_validate_integration_job(job) ==
    /\ job.name # <<>>
    /\ job.source_configs # <<>>
    /\ job.target_configs # <<>>
    /\ \A i \in DOMAIN job.source_configs : job.source_configs[i].type \in Connectors

\* The jobs after create_integration_job(job), for a job without an id.
JobsAfter(job) ==
    IF ~_validate_integration_job(job) THEN integration_jobs
    ELSE Append(integration_jobs,
                [job EXCEPT !.job_id = Len(integration_jobs) + 1,
                            !.pattern = <<"IntegrationPattern.", @>>,
                            !.source_configs = [i \in DOMAIN @ |->
                                [@[i] EXCEPT !.type = <<"DataSourceType.", @>>]],
                            !.target_configs = [i \in DOMAIN @ |->
                                [@[i] EXCEPT !.type = <<"DataSourceType.", @>>]]])

(***************************************************************************)
(* DataArchitectureOrchestrator.create_data_domain (orchestrator.py), with *)
(* the default ArchitectureConfig: the three managers enabled.  A call is  *)
(* a run of four steps; call.pc names the step that comes next and         *)
(* call.schema_created is the local of that name.  A domain_config is the  *)
(* record of the entries the steps read, a missing or empty entry being    *)
(* None.                                                                   *)
(***************************************************************************)
\* Optional[Schema]: None for the exception of an enum constructor.
_create_domain_schema(domain_name, config) ==
    LET schema_type == EnumLookup(SchemaType, config.schema.type)
        classifications == [i \in DOMAIN config.schema.fields |->
            EnumLookup(DataClassification, config.schema.fields[i].classification)]
    IN IF IsNone(schema_type) \/ \E i \in DOMAIN classifications : IsNone(classifications[i])
       THEN None
       ELSE Some([name |-> domain_name, version |-> "1.0.0",
                  schema_type |-> The(schema_type),
                  fields |-> [i \in DOMAIN config.schema.fields |->
                      [config.schema.fields[i] EXCEPT
                          !.classification = The(classifications[i])]],
                  indexes |-> <<>>, relationships |-> <<>>,
                  technical_owner |-> config.technical_owner,
                  classification |-> "INTERNAL",
                  retention_policy |-> Some("7_years")])

\* config.get("technical_owner", "system")
CreatedBy(config) ==
    IF IsNone(config.technical_owner) THEN "system" ELSE The(config.technical_owner)

DomainPolicy(domain_name, config, access_levels) ==
    [policy_id |-> "", name |-> <<domain_name, "_access_policy">>,
     resource_pattern |-> <<domain_name, ".*">>,
     principals |-> The(config.access).principals,
     access_levels |-> access_levels,
     created_by |-> CreatedBy(config)]

\* The loop over the quality rule configurations (lines 596-609): the rules
\* written, and whether DataQualityRule(...) raised on the way.
RECURSIVE QualityLoop(_, _, _, _)
QualityLoop(domain_name, config, rule_configs, rules) ==
    IF rule_configs = <<>> THEN [quality_rules |-> rules, raised |-> FALSE]
    ELSE LET rule_type == DataQualityRuleOf(Head(rule_configs).type) IN
         IF IsNone(rule_type) THEN [quality_rules |-> rules, raised |-> TRUE]
         ELSE QualityLoop(domain_name, config, Tail(rule_configs),
                  RulesAfter(rules,
                      [rule_id |-> "", name |-> Head(rule_configs).name,
                       rule_type |-> The(rule_type), target_schema |-> domain_name,
                       severity |-> "medium", created_by |-> CreatedBy(config)]))

\* What _create_domain_governance leaves and returns.
_create_domain_governance(domain_name, config) ==
    LET unchanged == [access_policies |-> access_policies, audit_log |-> audit_log]
        access_levels ==
            IF IsNone(config.access) THEN <<>>
            ELSE [i \in DOMAIN The(config.access).levels |->
                     AccessLevelOf(The(config.access).levels[i])]
        raised == \E i \in DOMAIN access_levels : IsNone(access_levels[i])
        policies ==
            IF IsNone(config.access) \/ raised THEN unchanged
            ELSE PoliciesAfter(DomainPolicy(domain_name, config,
                                   [i \in DOMAIN access_levels |-> The(access_levels[i])]))
        quality ==
            IF raised \/ IsNone(config.quality)
            THEN [quality_rules |-> quality_rules, raised |-> raised]
            ELSE QualityLoop(domain_name, config, The(config.quality), quality_rules)
    IN [access_policies |-> policies.access_policies, audit_log |-> policies.audit_log,
        quality_rules |-> quality.quality_rules, returned |-> ~quality.raised]

\* MetadataManager._extract_tags_from_name, on the names of the model
_extract_tags_from_name(name) ==
    CASE name = <<"orders">> -> <<"transactional">>
      [] OTHER               -> <<>>

\* The metadata the orchestrator's default rules give a resource at its
\* registration (lines 777-803): the rule for every name takes the tags of
\* the name; the rule for names of people does not match the names here.
_apply_metadata_rules(resource) ==
    LET tags == _extract_tags_from_name(resource.name) IN
    IF tags = <<>> THEN resource
    ELSE [resource EXCEPT !.metadata =
             Some((IF IsNone(@) THEN <<>> ELSE The(@))
                  \o <<[name |-> "auto_tags", value |-> tags, type |-> "string"]>>)]

\* resource.metadata[key] = attribute, for each item: a key there already
\* keeps its place and takes the new value.
RECURSIVE DictUpdate(_, _)
DictUpdate(items, new_items) ==
    IF new_items = <<>> THEN items
    ELSE DictUpdate(
            IF \E i \in DOMAIN items : items[i].name = Head(new_items).name
            THEN [i \in DOMAIN items |->
                     IF items[i].name = Head(new_items).name
                     THEN Head(new_items) ELSE items[i]]
            ELSE Append(items, Head(new_items)),
            Tail(new_items))

DomainResource(domain_name, config) ==
    [resource_id |-> "", name |-> <<domain_name>>, type |-> "SCHEMA",
     system |-> <<"internal">>, path |-> None,
     description |-> Some(<<"Data domain: ", domain_name>>),
     owner |-> None, metadata |-> None, tags |-> Some(<<>>)]

CustomMetadata(config) ==
    [i \in DOMAIN The(config.metadata) |->
        [name |-> The(config.metadata)[i].key, value |-> The(config.metadata)[i].value,
         type |-> "string"]]

\* The resource document register_resource and then add_metadata leave
\* under resource_id.
DomainResourceDocument(domain_name, config, resource_id) ==
    LET registered == _apply_metadata_rules(
                          [DomainResource(domain_name, config) EXCEPT
                              !.resource_id = resource_id])
    IN IF IsNone(config.metadata) THEN registered
       ELSE [registered EXCEPT !.metadata =
                Some(DictUpdate(IF Truthy(@) THEN The(@) ELSE <<>>,
                                CustomMetadata(config)))]

\* What _create_domain_integration leaves and returns.
_create_domain_integration(domain_name, config) ==
    IF IsNone(config.integration)
    THEN [integration_jobs |-> integration_jobs, returned |-> TRUE]
    ELSE LET pattern == IntegrationPatternOf(The(config.integration).pattern) IN
         IF IsNone(pattern)
         THEN [integration_jobs |-> integration_jobs, returned |-> FALSE]
         ELSE LET job == [job_id |-> "", name |-> <<domain_name, "_integration">>,
                          pattern |-> The(pattern),
                          source_configs |-> <<[name |-> <<domain_name, "_source">>,
                                                type |-> "RELATIONAL_DB"]>>,
                          target_configs |-> <<[name |-> <<domain_name, "_target">>,
                                                type |-> "RELATIONAL_DB"]>>,
                          created_by |-> CreatedBy(config)]
              IN [integration_jobs |-> JobsAfter(job),
                  returned |-> _validate_integration_job(job)]

\* Variant that goes on after a failed schema creation.
DomainAbortedNever(schema_created) == FALSE

\* `if not schema_created: return False` (lines 113-114)
DomainAborted(schema_created) == ~schema_created

InDomainCall == call.op = "create_data_domain" /\ call.pc # "done"

\* The entry of create_data_domain and its first step (lines 106-114).
CreateDataDomain(domain_name, domain_config) ==
    /\ ~InDomainCall
    /\ UNCHANGED other_trees
    /\ LET schema == _create_domain_schema(domain_name, domain_config) IN
       \E schema_created \in BOOLEAN :
          /\ IF IsNone(schema)
             THEN schema_created = FALSE /\ UNCHANGED <<store, created>>
             ELSE create_schema(The(schema), schema_created)
          /\ IF DomainAborted(schema_created)
             THEN /\ call' = [op |-> "create_data_domain", domain_name |-> domain_name,
                              domain_config |-> domain_config,
                              schema_created |-> schema_created, pc |-> "done"]
                  /\ ret' = <<FALSE>>
             ELSE /\ call' = [op |-> "create_data_domain", domain_name |-> domain_name,
                              domain_config |-> domain_config,
                              schema_created |-> schema_created, pc |-> "governance"]
                  /\ ret' = <<>>

\* The governance step (lines 117-120)
DomainGovernance ==
    /\ InDomainCall /\ call.pc = "governance"
    /\ LET left == _create_domain_governance(call.domain_name, call.domain_config)
       IN /\ access_policies' = left.access_policies
          /\ audit_log' = left.audit_log
          /\ quality_rules' = left.quality_rules
    /\ call' = [call EXCEPT !.pc = "metadata"]
    /\ UNCHANGED <<store, created, metadata_tree, integration_jobs, integration_results, lineage, ret>>

\* The metadata step (lines 123-126)
DomainMetadata ==
    /\ InDomainCall /\ call.pc = "metadata"
    /\ \E resource_id \in FreshIds(resource_files) :
         LET document == DomainResourceDocument(call.domain_name, call.domain_config,
                                                resource_id)
         IN IF ~_validate_resource(document)
            THEN UNCHANGED <<resource_files, search_index, catalog>>
            ELSE /\ resource_files' = [resource_files EXCEPT ![resource_id] =
                                          Some(_serialize_resource(document))]
                 /\ search_index' = [search_index EXCEPT ![resource_id] =
                                        Some(IndexEntry(document))]
                 /\ catalog' = [catalog EXCEPT ![document.system] =
                                   CatalogEntries(@, document)]
    /\ call' = [call EXCEPT !.pc = "integration"]
    /\ UNCHANGED <<store, created, relationship_files, governance_tree,
                   integration_jobs, integration_results, lineage, ret>>

\* The integration step and the return (lines 129-135)
DomainIntegration ==
    /\ InDomainCall /\ call.pc = "integration"
    /\ integration_jobs' =
           _create_domain_integration(call.domain_name, call.domain_config).integration_jobs
    /\ call' = [call EXCEPT !.pc = "done"]
    /\ ret' = <<TRUE>>
    /\ UNCHANGED <<store, created, metadata_tree, governance_tree, integration_results, lineage>>

DomainNames == StoreNames

DomainFieldConfigs ==
    {<<[name |-> "id", data_type |-> "integer", nullable |-> TRUE,
        primary_key |-> TRUE, classification |-> "internal"]>>}

DomainConfigs ==
    [schema : [type : {"relational", "bogus"}, fields : DomainFieldConfigs],
     technical_owner : {None},
     access : {None, Some([principals |-> <<"u">>, levels |-> <<"read">>]),
               Some([principals |-> <<>>, levels |-> <<"read">>]),
               Some([principals |-> <<"u">>, levels |-> <<"bogus">>])},
     quality : {None, Some(<<[name |-> "q1", type |-> "not_null"]>>),
                Some(<<[name |-> "q1", type |-> "not_null"],
                       [name |-> "q2", type |-> "bogus"]>>)},
     metadata : {None, Some(<<[key |-> "k", value |-> <<"v">>]>>)},
     integration : {None, Some([pattern |-> "etl"]), Some([pattern |-> "bogus"])}]

NextDomain ==
    \/ \E domain_name \in DomainNames, domain_config \in DomainConfigs :
          CreateDataDomain(domain_name, domain_config)
    \/ DomainGovernance
    \/ DomainMetadata
    \/ DomainIntegration

\* The rules _create_default_quality_rules leaves at construction (708-748).
DefaultQualityRules ==
    RulesAfter(RulesAfter(RulesAfter(<<>>,
        [rule_id |-> "", name |-> "no_null_primary_keys", rule_type |-> "NOT_NULL",
         target_schema |-> "*", severity |-> "critical", created_by |-> "system"]),
        [rule_id |-> "", name |-> "unique_primary_keys", rule_type |-> "UNIQUE",
         target_schema |-> "*", severity |-> "critical", created_by |-> "system"]),
        [rule_id |-> "", name |-> "data_completeness", rule_type |-> "COMPLETENESS",
         target_schema |-> "*", severity |-> "medium", created_by |-> "system"])

InitDomain ==
    /\ EmptyStore
    /\ EmptyCatalog
    /\ access_policies = <<>>
    /\ quality_rules = DefaultQualityRules
    /\ audit_log = <<>>
    /\ integration_jobs = <<>>
    /\ integration_results = <<>>
    /\ lineage = NoLineage
    /\ call = [op |-> "__init__"]
    /\ ret = <<>>

SpecDomain == InitDomain /\ [][NextDomain]_vars

(***************************************************************************)
(* Calls with arguments outside the annotated types: a schema whose fields *)
(* is None or whose field's data_type is None, a conflict without the key  *)
(* "records".  An outcome is the value returned or the exception that      *)
(* leaves the method.                                                      *)
(***************************************************************************)
Returns(value) == [raised |-> None, returned |-> Some(value)]

Raises(exception) == [raised |-> Some(exception), returned |-> None]

\* The schema with data_type a str in every field; the loop never reads the
\* data_type of a field without a name.
Typed(schema) ==
    [schema EXCEPT !.fields =
        [i \in DOMAIN The(schema.fields) |->
            [The(schema.fields)[i] EXCEPT
                !.data_type = IF IsNone(@) THEN "" ELSE The(@)]]]

\* validate_schema has no try: `for field in schema.fields` (line 265)
\* raises on None, and data_type.upper() (line 523) raises on None for a
\* field that has a name.
validate_schema_outcome(schema) ==
    IF IsNone(schema.fields) THEN Raises("TypeError")
    ELSE IF \E i \in DOMAIN The(schema.fields) :
               /\ The(schema.fields)[i].name # ""
               /\ IsNone(The(schema.fields)[i].data_type)
         THEN Raises("AttributeError")
         ELSE Returns(validate_schema(Typed(schema)))

ConflictResolution == {"LATEST_WINS", "SOURCE_PRIORITY", "MANUAL", "CUSTOM_LOGIC", "VERSIONED"}

\* max(records, key=timestamp): the first of the records with the largest
\* timestamp
Latest(records) ==
    LET i == CHOOSE i \in DOMAIN records :
                 /\ \A j \in DOMAIN records : records[j].timestamp <= records[i].timestamp
                 /\ \A j \in 1..(i - 1) : records[j].timestamp < records[i].timestamp
    IN records[i]

\* _resolve_source_priority, lines 777-786
BySourcePriority(records, source_priority) ==
    IF \E p \in DOMAIN source_priority, i \in DOMAIN records :
           records[i].source = source_priority[p]
    THEN LET p == CHOOSE p \in DOMAIN source_priority :
                      /\ \E i \in DOMAIN records : records[i].source = source_priority[p]
                      /\ \A q \in 1..(p - 1) : \A i \in DOMAIN records :
                             records[i].source # source_priority[q]
             i == CHOOSE i \in DOMAIN records :
                      /\ records[i].source = source_priority[p]
                      /\ \A j \in 1..(i - 1) : records[j].source # source_priority[p]
         IN records[i]
    ELSE records[1]

\* One turn of the loop of resolve_conflicts (lines 519-530) with the
\* helper it calls (lines 762-809): the record appended, {} being the
\* record without fields, or the exception.
Resolve(conflict, strategy) ==
    IF IsNone(conflict.records) THEN Raises("KeyError")
    ELSE LET records == The(conflict.records) IN
         IF strategy \notin ConflictResolution
         THEN IF records = <<>> THEN Raises("IndexError") ELSE Returns(records[1])
         ELSE IF records = <<>> THEN Returns(<<>>)
         ELSE CASE strategy = "LATEST_WINS" -> Returns(Latest(records))
                [] strategy = "SOURCE_PRIORITY" ->
                       Returns(BySourcePriority(records, conflict.source_priority))
                [] strategy = "VERSIONED" ->
                       Returns([source |-> records[1].source,
                                 timestamp |-> records[1].timestamp,
                                 versions |-> records,
                                 current_version |-> Len(records) - 1])
                [] OTHER -> Returns(records[1])

\* The list of the handler (line 536): conflict["records"][0] of every
\* conflict, or the exception of the first one that has none.
FirstRecords(conflicts) ==
    IF \E i \in DOMAIN conflicts :
           IsNone(conflicts[i].records) \/ The(conflicts[i].records) = <<>>
    THEN LET i == CHOOSE i \in DOMAIN conflicts :
                      /\ IsNone(conflicts[i].records) \/ The(conflicts[i].records) = <<>>
                      /\ \A j \in 1..(i - 1) :
                             ~IsNone(conflicts[j].records) /\ The(conflicts[j].records) # <<>>
         IN Raises(IF IsNone(conflicts[i].records) THEN "KeyError" ELSE "IndexError")
    ELSE Returns([i \in DOMAIN conflicts |-> The(conflicts[i].records)[1]])

resolve_conflicts(conflicts, strategy) ==
    LET turns == [i \in DOMAIN conflicts |-> Resolve(conflicts[i], strategy)] IN
    IF \E i \in DOMAIN turns : ~IsNone(turns[i].raised)
    THEN FirstRecords(conflicts)
    ELSE Returns([i \in DOMAIN turns |-> The(turns[i].returned)])

UntypedFields ==
    [name : {"", "id"}, data_type : {None, Some("decimal"), Some("xml")},
     nullable : {TRUE}, primary_key : BOOLEAN, classification : {"INTERNAL"}]

UntypedSchemas ==
    {Schema("orders", "RELATIONAL", f, <<>>, <<>>, None) :
        f \in {None} \cup {Some(g) : g \in SeqsUpTo(UntypedFields, MaxFields)}}

ConflictRecords == [source : {"a", "b"}, timestamp : {1, 2}]

Conflicts ==
    [records : {None} \cup {Some(r) : r \in SeqsUpTo(ConflictRecords, 2)},
     source_priority : {<<>>, <<"b">>}]

InitOutcome ==
    /\ EmptyStore
    /\ EmptyCatalog
    /\ EmptyManagers
    /\ call \in {[op |-> "validate_schema", schema |-> x] : x \in UntypedSchemas}
             \cup {[op |-> "resolve_conflicts", conflicts |-> c, strategy |-> y] :
                      c \in SeqsUpTo(Conflicts, 1) \cup
                            {<<c1, c2>> : c1 \in {x \in Conflicts : x.source_priority = <<>>},
                                          c2 \in {x \in Conflicts : IsNone(x.records)
                                                     \/ Len(The(x.records)) = 0}},
                      y \in ConflictResolution \cup {"first"}}
    /\ ret = <<>>

CallValidateSchema ==
    /\ call.op = "validate_schema"
    /\ ret = <<>>
    /\ ret' = <<validate_schema_outcome(call.schema)>>
    /\ UNCHANGED <<store, created, other_trees, call>>

ResolveConflicts ==
    /\ call.op = "resolve_conflicts"
    /\ ret = <<>>
    /\ ret' = <<resolve_conflicts(call.conflicts, call.strategy)>>
    /\ UNCHANGED <<store, created, other_trees, call>>

NextOutcome == CallValidateSchema \/ ResolveConflicts

SpecOutcome == InitOutcome /\ [][NextOutcome]_vars

(***************************************************************************)
(* Two callers of one SchemaManager tree with no exclusion between them    *)
(* (threads or processes: the class takes no lock).  Each writer runs one  *)
(* create_schema or update_schema call; a step is one access to the tree   *)
(* with the local computation that follows it.  call[w] is the position    *)
(* and the locals of writer w, ret[w] what its call returned; wrote is the *)
(* set of directories the call has written so far.  A writer may stop      *)
(* between any two of its steps (Crash).                                   *)
(***************************************************************************)
Writers == {"w1", "w2"}

WriterFields ==
    [name : {"id"}, data_type : {"DECIMAL"}, nullable : BOOLEAN,
     primary_key : {FALSE}, classification : {"INTERNAL"}]

WriterSchemas ==
    {[Schema("orders", "RELATIONAL", <<f>>, <<>>, <<>>, None) EXCEPT !.version = v] :
        f \in WriterFields, v \in VersionLabels}

\* The locals of a call at its entry.  create_schema validates before it
\* looks at the tree (lines 155-158); version is the record the call will
\* append.
WriterCalls ==
    {[op |-> "create_schema", schema |-> x, version |-> InitialVersion(x),
      pc |-> "exists", current |-> None, loaded |-> <<>>, wrote |-> {}] :
        x \in WriterSchemas}
    \cup
    {[op |-> "update_schema", schema |-> x,
      version |-> [version |-> x.version, created_by |-> "dev", changes |-> <<"edit">>,
                   breaking_changes |-> FALSE],
      pc |-> "exists", current |-> None, loaded |-> <<>>, wrote |-> {}] :
        x \in WriterSchemas}

InitWriters ==
    /\ \/ EmptyStore
       \/ /\ \E seed \in {x \in WriterSchemas : x.version = "v1"} :
                definitions = [n \in StoreNames |-> Some(ValueDocument(seed))]
          /\ \E history \in {<<>>, <<VersionRecord(SeedVersion)>>} :
                versions = [n \in StoreNames |-> history]
          /\ governance = [n \in StoreNames |-> None]
          /\ migrations = [k \in MigrationKeys |-> None]
          /\ created = [n \in StoreNames |-> None]
    /\ EmptyCatalog
    /\ EmptyManagers
    /\ call \in [Writers -> WriterCalls]
    /\ ret = [w \in Writers |-> None]

At(w, pc) == call[w].pc = pc

\* Variant that saves the version record before the schema document.
NextWriteVersionsFirst(wrote) ==
    IF "versions" \notin wrote THEN "read_versions"
    ELSE IF "definitions" \notin wrote THEN "write_document"
    ELSE "finish"

\* The order of the writes in both methods (lines 168-192, 226-240): the
\* schema document, then _save_version, then the governance record or the
\* migration script.
NextWrite(wrote) ==
    IF "definitions" \notin wrote THEN "write_document"
    ELSE IF "versions" \notin wrote THEN "read_versions"
    ELSE "finish"

Goto(w, pc) == call' = [call EXCEPT ![w].pc = pc]

Return(w, value) == Goto(w, "done") /\ ret' = [ret EXCEPT ![w] = Some(value)]

\* schema_exists (lines 161 and 201)
Exists(w) ==
    /\ At(w, "exists")
    /\ IF call[w].op = "create_schema"
       THEN IF schema_exists(call[w].schema.name)
            THEN Return(w, FALSE)
            ELSE Goto(w, NextWrite(call[w].wrote)) /\ UNCHANGED ret
       ELSE IF ~schema_exists(call[w].schema.name)
            THEN Return(w, FALSE)
            ELSE Goto(w, "get_schema") /\ UNCHANGED ret
    /\ UNCHANGED <<store, created, other_trees>>

\* update_schema, lines 206-221: the read of the current schema, the
\* validation and the detection.
LoadCurrent(w) ==
    /\ At(w, "get_schema")
    /\ LET current_schema == get_schema(call[w].schema.name) IN
       IF IsNone(current_schema) \/ ValidationFailed(validate_schema(call[w].schema))
       THEN Return(w, FALSE)
       ELSE /\ call' = [call EXCEPT
                  ![w].current = current_schema,
                  ![w].version = WithBreakingFlag(@,
                      _detect_breaking_changes(The(current_schema), call[w].schema)),
                  ![w].pc = NextWrite(call[w].wrote)]
            /\ UNCHANGED ret
    /\ UNCHANGED <<store, created, other_trees>>

\* The write of the schema document (lines 175-176, 232-233)
WriteDocument(w) ==
    /\ At(w, "write_document")
    /\ definitions' = [definitions EXCEPT ![call[w].schema.name] =
           Some(SchemaDocument(call[w].schema,
                   IF call[w].op = "create_schema" THEN "created_at" ELSE "updated_at"))]
    /\ call' = [call EXCEPT ![w].wrote = @ \cup {"definitions"},
                            ![w].pc = NextWrite(call[w].wrote \cup {"definitions"})]
    /\ UNCHANGED <<versions, governance, migrations, created, other_trees, ret>>

\* _save_version, lines 402-405: the list read, [] for a missing file
ReadVersions(w) ==
    /\ At(w, "read_versions")
    /\ call' = [call EXCEPT ![w].loaded = versions[call[w].schema.name],
                            ![w].pc = "write_versions"]
    /\ UNCHANGED <<store, created, other_trees, ret>>

\* Variant that appends to the list stored at the time of the write.
VersionsHeldStored(loaded, stored) == stored

\* The list _save_version appends to is the one it read (line 405), whatever
\* the file holds by the time of the write.
VersionsHeld(loaded, stored) == loaded

\* _save_version, lines 407-411
WriteVersions(w) ==
    /\ At(w, "write_versions")
    /\ versions' = [versions EXCEPT ![call[w].schema.name] =
                       SavedVersions(VersionsHeld(call[w].loaded, @), call[w].version)]
    /\ call' = [call EXCEPT ![w].wrote = @ \cup {"versions"},
                            ![w].pc = NextWrite(call[w].wrote \cup {"versions"})]
    /\ UNCHANGED <<definitions, governance, migrations, created, other_trees, ret>>

\* The last write and the return: the governance record of create_schema
\* (lines 189-192), the migration script of update_schema (lines 239-243).
Finish(w) ==
    /\ At(w, "finish")
    /\ UNCHANGED <<definitions, versions, other_trees>>
    /\ IF call[w].op = "create_schema"
       THEN /\ governance' = [governance EXCEPT ![call[w].schema.name] =
                                 Some(GovernanceRecord(call[w].schema))]
            /\ created' = [created EXCEPT ![call[w].schema.name] = Some(call[w].schema)]
            /\ call' = [call EXCEPT ![w].wrote = @ \cup {"governance"}, ![w].pc = "done"]
            /\ ret' = [ret EXCEPT ![w] = Some(TRUE)]
            /\ UNCHANGED migrations
       ELSE LET script == _generate_migration(call[w].schema.name, The(call[w].current),
                                              call[w].schema, call[w].version)
            IN /\ UNCHANGED <<governance, created>>
               /\ IF ~call[w].version.breaking_changes
                  THEN Return(w, TRUE) /\ UNCHANGED migrations
                  ELSE IF IsNone(script)
                  THEN Return(w, FALSE) /\ UNCHANGED migrations
                  ELSE /\ migrations' = [migrations EXCEPT
                              ![migration_file(call[w].schema.name, call[w].version.version)] = script]
                       /\ call' = [call EXCEPT ![w].wrote = @ \cup {"migrations"},
                                               ![w].pc = "done"]
                       /\ ret' = [ret EXCEPT ![w] = Some(TRUE)]

Running(w) == call[w].pc \notin {"done", "crashed"}

\* The writer stops where it is: nothing of its call is undone, nothing more
\* is written.
Crash(w) ==
    /\ Running(w)
    /\ Goto(w, "crashed")
    /\ UNCHANGED <<store, created, other_trees, ret>>

NextWriters ==
    \E w \in Writers :
       \/ Exists(w)
       \/ LoadCurrent(w)
       \/ WriteDocument(w)
       \/ ReadVersions(w)
       \/ WriteVersions(w)
       \/ Finish(w)
       \/ Crash(w)

SpecWriters == InitWriters /\ [][NextWriters]_vars

(***************************************************************************)
(* create_schema on schemas that carry classifications, on the schema and  *)
(* on its fields.                                                          *)
(***************************************************************************)
ClassifiedFields ==
    [name : {"id", "ssn"}, data_type : {"TEXT"}, nullable : {TRUE},
     primary_key : {FALSE}, classification : {"INTERNAL", "PII", "PHI"}]

ClassifiedSchemas ==
    {[Schema(n, "RELATIONAL", f, <<>>, <<>>, None) EXCEPT !.classification = c] :
        n \in StoreNames,
        f \in {g \in SeqsUpTo(ClassifiedFields, MaxFields) : UniqueNames(g)},
        c \in {"INTERNAL", "PII", "PHI"}}

NextGovernance == \E schema \in ClassifiedSchemas : CreateSchema(schema)

SpecGovernance == Init /\ [][NextGovernance]_vars

(***************************************************************************)
(* update_schema over a tree that holds readable documents of two schemas  *)
(* whose names, like the version labels passed, may contain "_".           *)
(***************************************************************************)
ArtifactNames == {"a", "a_b"}

ArtifactLabels == {"c", "b_c"}

ArtifactField(name, data_type) ==
    [name |-> name, data_type |-> data_type, nullable |-> TRUE, primary_key |-> FALSE,
     classification |-> "INTERNAL"]

\* The stored field list, and the lists of the updates: the same, without
\* "amount", with another type for "id".
ArtifactFieldLists ==
    {<<ArtifactField("id", "DECIMAL"), ArtifactField("amount", "DECIMAL")>>,
     <<ArtifactField("id", "DECIMAL")>>,
     <<ArtifactField("id", "TEXT"), ArtifactField("amount", "DECIMAL")>>}

ArtifactSchemas ==
    {Schema(n, "RELATIONAL", f, <<>>, <<>>, None) : n \in ArtifactNames, f \in ArtifactFieldLists}

ArtifactVersionInfos ==
    [version : ArtifactLabels, created_by : {"dev"}, changes : {<<"edit">>},
     breaking_changes : {FALSE}]

InitArtifacts ==
    /\ definitions = [n \in ArtifactNames |->
          Some(ValueDocument(Schema(n, "RELATIONAL",
              <<ArtifactField("id", "DECIMAL"), ArtifactField("amount", "DECIMAL")>>,
              <<>>, <<>>, None)))]
    /\ versions = [n \in ArtifactNames |-> <<>>]
    /\ governance = [n \in ArtifactNames |-> None]
    /\ migrations = [f \in {migration_file(n, v) : n \in ArtifactNames, v \in ArtifactLabels}
                        |-> None]
    /\ created = [n \in ArtifactNames |-> None]
    /\ EmptyCatalog
    /\ EmptyManagers
    /\ call = [op |-> "__init__"]
    /\ ret = <<>>

NextArtifacts ==
    \E schema \in ArtifactSchemas, version_info \in ArtifactVersionInfos :
        UpdateSchema(schema, version_info)

SpecArtifacts == InitArtifacts /\ [][NextArtifacts]_vars

(***************************************************************************)
(* create_schema and update_schema with schemas of every kind of schema    *)
(* type: one with a whitelist (DOCUMENT) and the one without (GRAPH), over *)
(* a tree that is empty or holds an imported DOCUMENT schema in the format *)
(* get_schema reads.                                                       *)
(***************************************************************************)
GraphFields ==
    [name : {"", "id"}, data_type : {"STRING", "TEXT"}, nullable : {TRUE},
     primary_key : {FALSE}, classification : {"INTERNAL"}]

GraphSchemas ==
    {Schema(n, t, f, <<>>, <<>>, None) :
        n \in StoreNames, t \in {"DOCUMENT", "GRAPH"}, f \in SeqsUpTo(GraphFields, MaxFields)}

InitGraph ==
    /\ \E present \in SUBSET StoreNames :
         \E seed \in [present -> {s \in GraphSchemas : s.schema_type = "DOCUMENT"
                                                          /\ validate_schema(s).valid}] :
         \E history \in [present -> {<<>>, <<SeedVersion>>}] :
            /\ \A n \in present : seed[n].name = n
            /\ definitions = [n \in StoreNames |->
                                 IF n \in present THEN Some(ValueDocument(seed[n])) ELSE None]
            /\ versions = [n \in StoreNames |-> IF n \in present THEN history[n] ELSE <<>>]
    /\ governance = [n \in StoreNames |-> None]
    /\ migrations = [k \in MigrationKeys |-> None]
    /\ created = [n \in StoreNames |-> None]
    /\ EmptyCatalog
    /\ EmptyManagers
    /\ call = [op |-> "__init__"]
    /\ ret = <<>>

NextGraph ==
    \/ \E schema \in GraphSchemas : CreateSchema(schema)
    \/ \E schema \in GraphSchemas, version_info \in VersionInfos :
          UpdateSchema(schema, version_info)

SpecGraph == InitGraph /\ [][NextGraph]_vars

(***************************************************************************)
(* DataGovernanceManager.create_access_policy and check_access over the    *)
(* directory policies/.  A resource and a resource pattern are the         *)
(* sequences of their pieces ("orders", ".", "*"); an access level of a    *)
(* document is the Text json.dump wrote for it.                            *)
(***************************************************************************)
MaxEvents == 3

\* access_level.value
AccessLevelValue(member) ==
    CASE member = "READ"   -> "read"
      [] member = "WRITE"  -> "write"
      [] member = "DELETE" -> "delete"
      [] member = "ADMIN"  -> "admin"

\* AccessLevel(al) on the text of a document (line 564)
AccessLevelOfText(text) == IF Len(text) = 1 THEN AccessLevelOf(text[1]) ELSE None

\* Variant that reads every document.
LoadableAlways(document) == TRUE

\* The try block of _load_access_policies (lines 559-574): the document is
\* skipped when AccessLevel(...) raises.
Loadable(document) ==
    \A i \in DOMAIN document.access_levels :
        ~IsNone(AccessLevelOfText(document.access_levels[i]))

\* The levels of a loaded policy; a text that is no member's value, which
\* only LoadableAlways lets through, by its last piece.
LoadedLevels(document) ==
    {IF IsNone(AccessLevelOfText(document.access_levels[i]))
     THEN document.access_levels[i][Len(document.access_levels[i])]
     ELSE The(AccessLevelOfText(document.access_levels[i])) :
        i \in DOMAIN document.access_levels}

_load_access_policies ==
    SelectSeq(access_policies, LAMBDA document : Loadable(document))

\* resource_pattern.rstrip('*')
RECURSIVE RStripStar(_)
RStripStar(text) ==
    IF text # <<>> /\ text[Len(text)] = "*"
    THEN RStripStar(SubSeq(text, 1, Len(text) - 1))
    ELSE text

_policy_matches_resource(policy, resource) ==
    MatchAt(resource, RStripStar(policy.resource_pattern), 1)

_policy_applies_to_user(policy, user_id) ==
    \E i \in DOMAIN policy.principals : policy.principals[i] \in {user_id, "all"}

\* The condition of line 215 on a loaded policy.
PolicyGrants(policy, user_id, resource, access_level) ==
    /\ _policy_matches_resource(policy, resource)
    /\ _policy_applies_to_user(policy, user_id)
    /\ access_level \in LoadedLevels(policy)

AuditEvent(event_type, details) == [event_type |-> event_type, details |-> details]

CreateAccessPolicy(policy) ==
    /\ Len(audit_log) < MaxEvents
    /\ call' = [op |-> "create_access_policy", policy |-> policy]
    /\ access_policies' = PoliciesAfter(policy).access_policies
    /\ audit_log' = PoliciesAfter(policy).audit_log
    /\ ret' = <<_validate_access_policy(policy)>>
    /\ UNCHANGED <<store, created, metadata_tree, quality_rules, integration_jobs, integration_results, lineage>>

\* check_access; `expired` is the outcome of utcnow() > expiry_date for the
\* policies that carry a date, and the policy that grants is the first in
\* the order of glob, which is any order.
CheckAccess(user_id, resource, access_level) ==
    /\ Len(audit_log) < MaxEvents
    /\ call' = [op |-> "check_access", user_id |-> user_id, resource |-> resource,
                access_level |-> access_level]
    /\ \E expired \in BOOLEAN :
         LET policies == _load_access_policies
             granting == {i \in DOMAIN policies :
                             /\ PolicyGrants(policies[i], user_id, resource, access_level)
                             /\ ~(policies[i].expiry_date # None /\ expired)}
         IN IF granting # {}
            THEN /\ \E i \in granting :
                      audit_log' = Append(audit_log,
                          AuditEvent("access_granted",
                              [user_id |-> user_id, resource |-> resource,
                               access_level |-> AccessLevelValue(access_level),
                               policy_id |-> policies[i].policy_id]))
                 /\ ret' = <<TRUE>>
            ELSE /\ audit_log' = Append(audit_log,
                          AuditEvent("access_denied",
                              [user_id |-> user_id, resource |-> resource,
                               access_level |-> AccessLevelValue(access_level),
                               reason |-> "no_matching_policy"]))
                 /\ ret' = <<FALSE>>
    /\ UNCHANGED <<store, created, metadata_tree, access_policies, quality_rules,
                   integration_jobs, integration_results, lineage>>

AccessPolicies ==
    [policy_id : {""}, name : {<<"p">>}, resource_pattern : {<<"orders", ".", "*">>},
     principals : {<<>>, <<"u">>, <<"all">>}, access_levels : {<<"READ">>},
     expiry_date : {None, Some("2030-01-01")}, created_by : {"dev"}]

\* A policy document in the format _load_access_policies reads: each level
\* by its value.
ValuePolicyDocument ==
    [policy_id |-> 1, name |-> <<"seed">>, resource_pattern |-> <<"users", "*">>,
     principals |-> <<"v">>, access_levels |-> << <<"write">> >>,
     expiry_date |-> Some("2030-01-01"), created_by |-> "import"]

AccessUsers == {"u", "v"}

AccessResources == {<<"orders", ".", "t">>, <<"users">>}

AccessLevels == {"READ", "WRITE"}

\* A manager constructed over a tree whose policies/ is empty or holds a
\* readable document.
InitAccess ==
    /\ EmptyStore
    /\ EmptyCatalog
    /\ access_policies \in {<<>>, <<ValuePolicyDocument>>}
    /\ quality_rules = <<>>
    /\ audit_log = <<>>
    /\ integration_jobs = <<>>
    /\ integration_results = <<>>
    /\ lineage = NoLineage
    /\ call = [op |-> "__init__"]
    /\ ret = <<>>

NextAccess ==
    \/ \E policy \in AccessPolicies : CreateAccessPolicy(policy)
    \/ \E user_id \in AccessUsers, resource \in AccessResources, access_level \in AccessLevels :
          CheckAccess(user_id, resource, access_level)

SpecAccess == InitAccess /\ [][NextAccess]_vars

(***************************************************************************)
(* DataGovernanceManager.add_lineage_node, add_lineage_edge and            *)
(* get_data_lineage over lineage/nodes.json and lineage/edges.json.        *)
(* get_data_lineage runs in steps, one per iteration of the edge loop of   *)
(* _get_upstream_lineage / _get_downstream_lineage; call.stack holds the   *)
(* frames of the recursion, innermost last: the node of the frame, the     *)
(* index of the edge its loop is at and the list it has built.             *)
(***************************************************************************)
NodeIds == {"a", "b", "c"}

EdgeIds == {"e1", "e2", "e3"}

\* asdict(node), asdict(edge)
LineageNode(node_id) ==
    [node_id |-> node_id, name |-> node_id, type |-> "table", system |-> "db"]

LineageEdge(edge_id, source_node_id, target_node_id) ==
    [edge_id |-> edge_id, source_node_id |-> source_node_id,
     target_node_id |-> target_node_id]

\* next((n for n in nodes if n["node_id"] == node_id), None)
FindNode(nodes, node_id) ==
    LET found == SelectSeq(nodes, LAMBDA n : n.node_id = node_id)
    IN IF found = <<>> THEN None ELSE Some(found[1])

AddLineageNode(node) ==
    /\ ~(call.op = "get_data_lineage" /\ call.pc # "done")
    /\ lineage' = [lineage EXCEPT !.nodes =
                      Append(SelectSeq(@, LAMBDA n : n.node_id # node.node_id), node)]
    /\ call' = [op |-> "add_lineage_node", node |-> node]
    /\ ret' = <<TRUE>>
    /\ UNCHANGED <<store, created, metadata_tree, governance_tree, integration_jobs,
                   integration_results>>

AddLineageEdge(edge) ==
    /\ ~(call.op = "get_data_lineage" /\ call.pc # "done")
    /\ lineage' = [lineage EXCEPT !.edges =
                      Append(SelectSeq(@, LAMBDA e : e.edge_id # edge.edge_id), edge)]
    /\ call' = [op |-> "add_lineage_edge", edge |-> edge]
    /\ ret' = <<TRUE>>
    /\ UNCHANGED <<store, created, metadata_tree, governance_tree, integration_jobs,
                   integration_results>>

Frame(node_id) == [node_id |-> node_id, i |-> 1, acc |-> <<>>]

\* The frame of the first call of a traversal, when `direction` asks for it
\* (lines 414, 418).
FirstFrame(node_id, direction, pc) ==
    IF direction \in {"both", pc} THEN <<Frame(node_id)>> ELSE <<>>

\* Variant in which the downstream traversal starts with a set of its own.
DownstreamVisitedFresh(visited_nodes) == {}

\* The set handed to _get_downstream_lineage (line 419): the one the
\* upstream traversal filled.
DownstreamVisited(visited_nodes) == visited_nodes

\* The edge leads to the node of the frame, and the node at its far end
\* (lines 712, 729).
Matches(edge, node_id, pc) ==
    IF pc = "upstream" THEN edge.target_node_id = node_id
    ELSE edge.source_node_id = node_id

FarEnd(edge, pc) ==
    IF pc = "upstream" THEN edge.source_node_id ELSE edge.target_node_id

\* The dict appended for an edge (lines 716-720, 733-737).
LineageEntry(node, relationship, below, pc) ==
    IF pc = "upstream"
    THEN [node |-> node, relationship |-> relationship, upstream |-> below]
    ELSE [node |-> node, relationship |-> relationship, downstream |-> below]

LineageRunning ==
    /\ call.op = "get_data_lineage"
    /\ call.pc \in {"upstream", "downstream"}

\* Lines 391-411: the lists are loaded and the target looked up.
GetDataLineage(node_id, direction) ==
    /\ ~(call.op = "get_data_lineage" /\ call.pc # "done")
    /\ LET target_node == FindNode(lineage.nodes, node_id)
       IN /\ call' = [op |-> "get_data_lineage", node_id |-> node_id,
                      direction |-> direction,
                      pc |-> IF IsNone(target_node) THEN "done" ELSE "upstream",
                      nodes |-> lineage.nodes, edges |-> lineage.edges,
                      visited_nodes |-> {},
                      stack |-> IF IsNone(target_node) THEN <<>>
                                ELSE FirstFrame(node_id, direction, "upstream"),
                      upstream |-> <<>>, downstream |-> <<>>,
                      added |-> [n \in NodeIds |-> 0]]
          /\ ret' = IF IsNone(target_node) THEN <<[error |-> "Node not found"]>> ELSE <<>>
    /\ UNCHANGED <<store, created, other_trees>>

\* The edge the innermost loop is at.
AtEdge == call.edges[call.stack[Len(call.stack)].i]

\* The condition of lines 712-714 / 729-731 for that edge.
Follows ==
    /\ Matches(AtEdge, call.stack[Len(call.stack)].node_id, call.pc)
    /\ FarEnd(AtEdge, call.pc) \notin call.visited_nodes
    /\ ~IsNone(FindNode(call.nodes, FarEnd(AtEdge, call.pc)))

\* visited.add(...) and the recursive call.
Visit ==
    /\ LineageRunning /\ call.stack # <<>>
    /\ call.stack[Len(call.stack)].i <= Len(call.edges)
    /\ Follows
    /\ call' = [call EXCEPT
                  !.visited_nodes = @ \cup {FarEnd(AtEdge, call.pc)},
                  !.added[FarEnd(AtEdge, call.pc)] = @ + 1,
                  !.stack = Append(@, Frame(FarEnd(AtEdge, call.pc)))]
    /\ UNCHANGED <<store, created, other_trees, ret>>

\* The loop goes on to the next edge.
Skip ==
    /\ LineageRunning /\ call.stack # <<>>
    /\ call.stack[Len(call.stack)].i <= Len(call.edges)
    /\ ~Follows
    /\ call' = [call EXCEPT !.stack[Len(call.stack)].i = @ + 1]
    /\ UNCHANGED <<store, created, other_trees, ret>>

\* `return upstream` / `return downstream`: to the caller's append, or to
\* get_data_lineage (lines 415, 419).
ReturnLineage ==
    /\ LineageRunning /\ call.stack # <<>>
    /\ call.stack[Len(call.stack)].i > Len(call.edges)
    /\ LET depth == Len(call.stack)
           below == call.stack[depth].acc
       IN IF depth = 1
          THEN call' = [call EXCEPT !.stack = <<>>,
                                    !.upstream = IF call.pc = "upstream" THEN below ELSE @,
                                    !.downstream = IF call.pc = "downstream" THEN below ELSE @]
          ELSE LET edge == call.edges[call.stack[depth - 1].i]
                   node == The(FindNode(call.nodes, FarEnd(edge, call.pc)))
               IN call' = [call EXCEPT
                             !.stack = [SubSeq(@, 1, depth - 1) EXCEPT
                                          ![depth - 1].acc =
                                              Append(@, LineageEntry(node, edge, below, call.pc)),
                                          ![depth - 1].i = @ + 1]]
    /\ UNCHANGED <<store, created, other_trees, ret>>

\* Lines 417-419.
EnterDownstream ==
    /\ call.op = "get_data_lineage" /\ call.pc = "upstream" /\ call.stack = <<>>
    /\ call' = [call EXCEPT
                  !.pc = "downstream",
                  !.visited_nodes = DownstreamVisited(@),
                  !.stack = FirstFrame(call.node_id, call.direction, "downstream")]
    /\ UNCHANGED <<store, created, other_trees, ret>>

\* Lines 421-428.
BuildGraph ==
    /\ call.op = "get_data_lineage" /\ call.pc = "downstream" /\ call.stack = <<>>
    /\ LET visited_nodes == call.visited_nodes \cup {call.node_id}
       IN /\ call' = [call EXCEPT !.pc = "done", !.visited_nodes = visited_nodes]
          /\ ret' = <<[target_node |-> The(FindNode(call.nodes, call.node_id)),
                       upstream |-> call.upstream,
                       downstream |-> call.downstream,
                       graph |-> [nodes |-> SelectSeq(call.nodes,
                                      LAMBDA n : n.node_id \in visited_nodes),
                                  edges |-> SelectSeq(call.edges,
                                      LAMBDA e : /\ e.source_node_id \in visited_nodes
                                                 /\ e.target_node_id \in visited_nodes)]]>>
    /\ UNCHANGED <<store, created, other_trees>>

LineageStep == Visit \/ Skip \/ ReturnLineage \/ EnterDownstream \/ BuildGraph

\* A manager over a tree whose nodes.json holds two nodes.
InitLineage ==
    /\ EmptyStore
    /\ EmptyCatalog
    /\ access_policies = <<>>
    /\ quality_rules = <<>>
    /\ audit_log = <<>>
    /\ integration_jobs = <<>>
    /\ integration_results = <<>>
    /\ lineage = [nodes |-> <<LineageNode("a"), LineageNode("b")>>, edges |-> <<>>]
    /\ call = [op |-> "__init__"]
    /\ ret = <<>>

NextLineage ==
    \/ AddLineageNode(LineageNode("c"))
    \/ \E edge_id \in EdgeIds, source_node_id \in NodeIds, target_node_id \in NodeIds :
          AddLineageEdge(LineageEdge(edge_id, source_node_id, target_node_id))
    \/ \E direction \in {"both", "downstream"} : GetDataLineage("a", direction)
    \/ Visit
    \/ Skip
    \/ ReturnLineage
    \/ EnterDownstream
    \/ BuildGraph

SpecLineage == InitLineage /\ [][NextLineage]_vars

\* get_data_lineage alone, over each tree the calls above can leave: the
\* edges of edges.json have distinct edge ids and any endpoints.
LineageEdges ==
    {LineageEdge(edge_id, source_node_id, target_node_id) :
        edge_id \in EdgeIds, source_node_id \in NodeIds, target_node_id \in NodeIds}

LineageGraphs ==
    [nodes : {<<LineageNode("a"), LineageNode("b")>>,
              <<LineageNode("a"), LineageNode("b"), LineageNode("c")>>},
     edges : {e \in SeqsUpTo(LineageEdges, Cardinality(EdgeIds)) :
                 \A i, j \in DOMAIN e : e[i].edge_id = e[j].edge_id => i = j}]

InitTraverse ==
    /\ EmptyStore
    /\ EmptyCatalog
    /\ access_policies = <<>>
    /\ quality_rules = <<>>
    /\ audit_log = <<>>
    /\ integration_jobs = <<>>
    /\ integration_results = <<>>
    /\ lineage \in LineageGraphs
    /\ call = [op |-> "__init__"]
    /\ ret = <<>>

NextTraverse ==
    \/ \E direction \in {"both", "downstream"} : GetDataLineage("a", direction)
    \/ Visit
    \/ Skip
    \/ ReturnLineage
    \/ EnterDownstream
    \/ BuildGraph

\* A call that has started goes on to its next step.
SpecTraverse == InitTraverse /\ [][NextTraverse]_vars /\ WF_vars(LineageStep)

(***************************************************************************)
(* DataIntegrationManager.create_integration_job and                       *)
(* execute_integration_job over jobs/ and results/.  A job id and a result *)
(* id are the ordinals of their files; an enum of a job document is the    *)
(* Text json.dump wrote for it.  The connectors are the placeholders of    *)
(* the source: connect succeeds, extract gives two records, load succeeds. *)
(***************************************************************************)
MaxJobs == 2        \* most files of jobs/ and of results/

DataSourceTypeOf(value) ==
    CASE value = "relational_db" -> Some("RELATIONAL_DB")
      [] value = "rest_api"      -> Some("REST_API")
      [] value = "stream"        -> Some("STREAM")
      [] OTHER                   -> None

\* IntegrationPattern(...), DataSourceType(...) on the text of a document
\* (lines 573, 579, 587): None for the ValueError.
IntegrationPatternOfText(text) ==
    IF Len(text) = 1 THEN IntegrationPatternOf(text[1]) ELSE None

DataSourceTypeOfText(text) ==
    IF Len(text) = 1 THEN DataSourceTypeOf(text[1]) ELSE None

\* Optional[IntegrationJob]: None when no file has the id and when an enum
\* constructor raises.
_load_integration_job(job_id) ==
    LET files == SelectSeq(integration_jobs, LAMBDA d : d.job_id = job_id) IN
    IF files = <<>> THEN None
    ELSE LET job_data == files[1]
             pattern == IntegrationPatternOfText(job_data.pattern)
             types(configs) == [i \in DOMAIN configs |->
                                   DataSourceTypeOfText(configs[i].type)]
             source_types == types(job_data.source_configs)
             target_types == types(job_data.target_configs)
         IN IF \/ IsNone(pattern)
               \/ \E i \in DOMAIN source_types : IsNone(source_types[i])
               \/ \E i \in DOMAIN target_types : IsNone(target_types[i])
            THEN None
            ELSE Some([job_data EXCEPT
                         !.pattern = The(pattern),
                         !.source_configs = [i \in DOMAIN @ |->
                             [@[i] EXCEPT !.type = The(source_types[i])]],
                         !.target_configs = [i \in DOMAIN @ |->
                             [@[i] EXCEPT !.type = The(target_types[i])]]])

\* _get_connector raises for a type without a connector.
HasConnector(config) == config.type \in Connectors

\* _execute_etl_job: result after the three phases, or after the exception
\* of _get_connector in the extract or in the load phase.
_execute_etl_job(job, result) ==
    LET processed == 2 * Len(job.source_configs)
        loaded == {i \in DOMAIN job.target_configs :
                      \A j \in 1..i : HasConnector(job.target_configs[j])}
    IN IF \E i \in DOMAIN job.source_configs : ~HasConnector(job.source_configs[i])
       THEN [result EXCEPT !.status = "failure", !.errors = <<"execution_error">>]
       ELSE IF \E i \in DOMAIN job.target_configs : ~HasConnector(job.target_configs[i])
       THEN [result EXCEPT !.status = "failure", !.errors = <<"execution_error">>,
                           !.records_processed = processed,
                           !.records_inserted = IF loaded = {} THEN 0 ELSE processed]
       ELSE [result EXCEPT !.status = "success",
                           !.records_processed = processed,
                           !.records_inserted = IF loaded = {} THEN 0 ELSE processed]

\* Lines 357-367; the streaming and CDC placeholders set the status only.
ExecutePattern(job, result) ==
    IF job.pattern \in {"STREAMING", "CDC"}
    THEN [result EXCEPT !.status = "success"]
    ELSE _execute_etl_job(job, result)

CreateIntegrationJob(job) ==
    /\ Len(integration_jobs) < MaxJobs
    /\ call' = [op |-> "create_integration_job", job |-> job]
    /\ integration_jobs' = JobsAfter(job)
    /\ ret' = <<_validate_integration_job(job)>>
    /\ UNCHANGED <<store, created, metadata_tree, governance_tree, integration_results,
                   lineage>>

\* ret holds the Optional[IntegrationResult] returned.
ExecuteIntegrationJob(job_id) ==
    /\ Len(integration_results) < MaxJobs
    /\ call' = [op |-> "execute_integration_job", job_id |-> job_id]
    /\ LET job == _load_integration_job(job_id) IN
       IF IsNone(job) \/ ~The(job).active
       THEN ret' = <<None>> /\ UNCHANGED integration_results
       ELSE LET result == ExecutePattern(The(job),
                              [result_id |-> Len(integration_results) + 1,
                               job_id |-> job_id, status |-> "running",
                               records_processed |-> 0, records_inserted |-> 0,
                               errors |-> <<>>])
            IN /\ integration_results' = Append(integration_results, result)
               /\ ret' = <<Some(result)>>
    /\ UNCHANGED <<store, created, metadata_tree, governance_tree, integration_jobs,
                   lineage>>

Jobs ==
    [job_id : {""}, name : {<<>>, <<"j">>}, pattern : {"ETL", "CDC"},
     source_configs : {<<[name |-> <<"s">>, type |-> "RELATIONAL_DB"]>>},
     target_configs : {<<[name |-> <<"t">>, type |-> "RELATIONAL_DB"]>>,
                       <<[name |-> <<"t">>, type |-> "STREAM"]>>},
     active : BOOLEAN, created_by : {"dev"}]

\* Job documents in the format _load_integration_job reads: each enum by
\* its value.
ValueJobDocuments ==
    [job_id : {1}, name : {<<"seed">>}, pattern : {<<"etl">>, <<"streaming">>},
     source_configs : {<<[name |-> <<"s">>, type |-> <<"relational_db">>]>>,
                       <<[name |-> <<"s">>, type |-> <<"stream">>]>>},
     target_configs : {<<[name |-> <<"t">>, type |-> <<"rest_api">>]>>,
                       <<[name |-> <<"t">>, type |-> <<"rest_api">>],
                         [name |-> <<"u">>, type |-> <<"stream">>]>>},
     active : BOOLEAN, created_by : {"import"}]

\* A manager constructed over a tree whose jobs/ is empty or holds a
\* readable document.
InitJobs ==
    /\ EmptyStore
    /\ EmptyCatalog
    /\ access_policies = <<>>
    /\ quality_rules = <<>>
    /\ audit_log = <<>>
    /\ integration_jobs \in {<<>>} \cup {<<d>> : d \in ValueJobDocuments}
    /\ integration_results = <<>>
    /\ lineage = NoLineage
    /\ call = [op |-> "__init__"]
    /\ ret = <<>>

NextJobs ==
    \/ \E job \in Jobs : CreateIntegrationJob(job)
    \/ \E job_id \in 0..MaxJobs : ExecuteIntegrationJob(job_id)

SpecJobs == InitJobs /\ [][NextJobs]_vars

(***************************************************************************)
(* Properties of validate_schema.                                          *)
(***************************************************************************)
Count(seq, x) == Cardinality({i \in DOMAIN seq : seq[i] = x})

Occurrences(fields, name) == Cardinality({i \in DOMAIN fields : fields[i].name = name})

FieldNamesOf(schema) == {schema.fields[i].name : i \in DOMAIN schema.fields}

\* A schema with none of the defects the validator rejects.
NoDefect(s) ==
    /\ s.name # ""
    /\ s.fields # <<>>
    /\ "" \notin FieldNamesOf(s)
    /\ UniqueNames(s.fields)
    /\ \A i \in DOMAIN s.fields :
          Upper(s.fields[i].data_type) \in valid_types(s.schema_type)
    /\ \A i \in DOMAIN s.indexes : \A k \in DOMAIN s.indexes[i].fields :
          s.indexes[i].fields[k] \in FieldNamesOf(s)
    /\ \A i \in DOMAIN s.relationships : s.relationships[i].source_field \in FieldNamesOf(s)

NoPrimaryKey(s) == \A i \in DOMAIN s.fields : ~s.fields[i].primary_key

Validated == call.op = "validate_schema" /\ ret # <<>>

\* C7: validate_schema reports valid = false exactly when an error was
\* recorded; warnings never invalidate: a schema without defect is valid
\* whatever its warnings, and a RELATIONAL schema without primary key and
\* without defect gets the primary-key warning and valid = true.
C7_ValidIffNoErrors ==
    Validated =>
        LET s == call.schema
            r == ret[1]
        IN /\ r.valid = (r.errors = <<>>)
           /\ (NoDefect(s) => r.valid)
           /\ (NoDefect(s) /\ s.schema_type = "RELATIONAL" /\ NoPrimaryKey(s)) =>
                 Count(r.warnings, <<"Relational schema should have a primary key">>) = 1

C7_Witness ==
    /\ Validated
    /\ NoDefect(call.schema) /\ call.schema.schema_type = "RELATIONAL"
    /\ NoPrimaryKey(call.schema)
    /\ ret[1].valid /\ ret[1].warnings # <<>>

\* C8: when two or more fields share a non-empty name N, validate_schema
\* returns valid = false with one error "Duplicate field name: N" for each
\* occurrence of N after the first.
C8_DuplicateFieldName ==
    Validated =>
        \A N \in FieldNamesOf(call.schema) \ {""} :
            Occurrences(call.schema.fields, N) >= 2 =>
                /\ ~ret[1].valid
                /\ Count(ret[1].errors, <<"Duplicate field name: ", N>>)
                      = Occurrences(call.schema.fields, N) - 1

C8_Witness ==
    /\ Validated
    /\ Occurrences(call.schema.fields, "id") >= 2
    /\ Count(ret[1].errors, <<"Duplicate field name: ", "id">>) >= 1

\* The number of fields marked primary_key, named or not.
PrimaryKeyCount(s) == Cardinality({i \in DOMAIN s.fields : s.fields[i].primary_key})

\* C24: validate_schema runs every check on every field whatever was found
\* before: each field whose data_type is not in the whitelist of the
\* schema's type gets its invalid-data-type error, and each primary_key
\* field is counted (the warnings follow the count), also when the field
\* has no name or the schema has other errors.
C24_AllFindings ==
    Validated =>
        LET s == call.schema
            r == ret[1]
        IN /\ \A i \in DOMAIN s.fields :
                 ~_is_valid_data_type(s.fields[i].data_type, s.schema_type) =>
                     Count(r.errors, <<"Invalid data type ", s.fields[i].data_type,
                                       " for field ", s.fields[i].name>>) >= 1
           /\ (s.schema_type = "RELATIONAL" /\ PrimaryKeyCount(s) = 0)
                 = (Count(r.warnings, <<"Relational schema should have a primary key">>) = 1)
           /\ (PrimaryKeyCount(s) > 1)
                 = (Count(r.warnings,
                      <<"Multiple primary keys detected, consider composite key design">>) = 1)

(***************************************************************************)
(* Properties of _detect_breaking_changes.                                 *)
(***************************************************************************)
Detected == call.op = "_detect_breaking_changes" /\ ret # <<>>

DetTypes == {"DECIMAL", "decimal"}

FieldNamed(schema, name) ==
    schema.fields[CHOOSE i \in DOMAIN schema.fields : schema.fields[i].name = name]

PositionOf(schema, name) ==
    CHOOSE i \in DOMAIN schema.fields : schema.fields[i].name = name

\* The entries the detector owes for (old, new), each with its place in the
\* list: the phase (1 removed fields, 2 changed fields), the field's
\* position in old, and the kind (1 type, 2 nullable, 3 primary key).
OwedEntries(old, new) ==
    {e \in [phase : {1}, pos : DOMAIN old.fields, kind : {0}, text : {<<>>}] \cup
           [phase : {2}, pos : DOMAIN old.fields, kind : 1..3, text : {<<>>}] :
        LET X == old.fields[e.pos].name IN
        IF e.phase = 1 THEN X \notin FieldNamesOf(new)
        ELSE /\ X \in FieldNamesOf(new)
             /\ LET o == old.fields[e.pos]
                    n == FieldNamed(new, X)
                IN CASE e.kind = 1 -> o.data_type # n.data_type
                     [] e.kind = 2 -> o.nullable /\ ~n.nullable
                     [] e.kind = 3 -> ~o.primary_key /\ n.primary_key}

OwedText(old, new, e) ==
    LET X == old.fields[e.pos].name IN
    CASE e.phase = 1 -> RemovedMsg(X)
      [] e.kind = 1  -> TypeMsg(X, old.fields[e.pos].data_type, FieldNamed(new, X).data_type)
      [] e.kind = 2  -> NullableMsg(X)
      [] e.kind = 3  -> PrimaryKeyMsg(X)

Before(e, f) ==
    \/ e.phase < f.phase
    \/ e.phase = f.phase /\ e.pos < f.pos
    \/ e.phase = f.phase /\ e.pos = f.pos /\ e.kind < f.kind

\* C9: for schemas with unique field names the detector returns exactly one
\* "Removed field: X" per field of old absent from new and, per field in
\* both, one data-type entry iff the data_type strings differ, one nullable
\* entry iff nullable became non-nullable, one primary-key entry iff the
\* field became a primary key; nothing else.
C9_ExactEntries ==
    Detected =>
        \A k \in DOMAIN ret :
            LET old  == call.old_schema
                new  == call.new_schema
                owed == OwedEntries(old, new)
            IN /\ \A e \in owed : Count(ret[k], OwedText(old, new, e)) = 1
               /\ Len(ret[k]) = Cardinality(owed)

\* a sole nullable tightening yields exactly one entry
C9_Witness ==
    /\ Detected
    /\ Len(call.old_schema.fields) = 1 /\ Len(call.new_schema.fields) = 1
    /\ call.old_schema.fields[1] = [call.new_schema.fields[1] EXCEPT !.nullable = TRUE]
    /\ ~call.new_schema.fields[1].nullable
    /\ ret[1] = <<NullableMsg(call.old_schema.fields[1].name)>>

\* C10: run twice on the same pair the detector returns the same list, with
\* the "Removed field" entries first in old-schema field order, then the
\* entries of each common field in old-schema field order (type, nullable,
\* primary key); the schemas and the file tree are as before the runs.
C10_OrderedAndRepeatable ==
    Detected =>
        /\ \A k \in DOMAIN ret :
              LET old  == call.old_schema
                  new  == call.new_schema
                  owed == OwedEntries(old, new)
              IN \E place \in [DOMAIN ret[k] -> owed] :
                    /\ \A i \in DOMAIN ret[k] : ret[k][i] = OwedText(old, new, place[i])
                    /\ \A i, j \in DOMAIN ret[k] : i < j => Before(place[i], place[j])
        /\ \A k, l \in DOMAIN ret : ret[k] = ret[l]
        /\ call.old_schema \in DetSchemas /\ call.new_schema \in DetSchemas
        /\ EmptyStore

\* the second of two fields is removed and the first changed: the removal
\* is listed first, and the second run agrees
C10_Witness ==
    /\ Detected /\ Len(ret) = 2
    /\ Len(call.old_schema.fields) = 2
    /\ call.old_schema.fields[2].name \notin FieldNamesOf(call.new_schema)
    /\ Len(ret[2]) = 4
    /\ ret[2][1] = RemovedMsg(call.old_schema.fields[2].name)

(***************************************************************************)
(* Properties of the schema lifecycle.                                     *)
(***************************************************************************)
Last(seq) == seq[Len(seq)]

\* C1: create_schema returns false and writes nothing (no schema document,
\* no version record, no governance record) whenever the candidate has a
\* defect the validator rejects or a document of that name exists; so a
\* second create_schema for a name leaves the first document, its history
\* and its governance record as they were.
C1_CreateRejects ==
    [][(/\ call'.op = "create_schema"
        /\ \/ ~NoDefect(call'.schema)
           \/ FileExists(definitions, call'.schema.name))
       => (ret' = <<FALSE>> /\ UNCHANGED store)]_vars

\* a second create_schema, with another schema, was refused and the first
\* document, history and governance record are the ones of the first call
C1_Witness ==
    /\ call.op = "create_schema" /\ ret = <<FALSE>>
    /\ NoDefect(call.schema)
    /\ FileExists(created, call.schema.name)
    /\ LET n == call.schema.name
           first == The(created[n])
       IN /\ first # call.schema
          /\ definitions[n] = Some(SchemaDocument(first, "created_at"))
          /\ versions[n] = <<VersionRecord(InitialVersion(first))>>
          /\ governance[n] = Some(GovernanceRecord(first))

\* C2: for every schema S that create_schema stored, get_schema(S.name)
\* returns a schema (not None) with the fields, indexes and relationships
\* of S and with the enum members S has for schema_type and classification.
C2_RoundTrip ==
    (call.op = "get_schema" /\ FileExists(created, call.schema_name)) =>
        LET S == The(created[call.schema_name])
            got == ret[1]
        IN /\ ~IsNone(got)
           /\ The(got).fields = S.fields
           /\ The(got).indexes = S.indexes
           /\ The(got).relationships = S.relationships
           /\ The(got).schema_type = S.schema_type
           /\ The(got).classification = S.classification

\* C3: for a name created with create_schema and a new schema without
\* defect, update_schema returns true, the stored document is the new
\* schema's, and the supplied version record is the last of the history,
\* whether or not breaking changes were detected.
C3_UpdateAccepted ==
    (/\ call.op = "update_schema"
     /\ FileExists(created, call.schema.name)
     /\ NoDefect(call.schema)) =>
        LET n == call.schema.name IN
        /\ ret = <<TRUE>>
        /\ definitions[n] = Some(SchemaDocument(call.schema, "updated_at"))
        /\ versions[n] # <<>>
        /\ Last(versions[n]).version = call.version_info.version
        /\ Last(versions[n]).created_by = call.version_info.created_by
        /\ Last(versions[n]).changes = call.version_info.changes

\* C4: update_schema returns false and leaves the schema document, the
\* version history and the migration files as they were when no document
\* of that name exists or the new schema has a defect the validator rejects.
C4_UpdateRejects ==
    [][(/\ call'.op = "update_schema"
        /\ \/ ~FileExists(definitions, call'.schema.name)
           \/ ~NoDefect(call'.schema))
       => (ret' = <<FALSE>> /\ UNCHANGED store)]_vars

\* an update of a stored, readable document was refused for the new
\* schema's defect
C4_Witness ==
    /\ call.op = "update_schema" /\ ret = <<FALSE>>
    /\ ~NoDefect(call.schema)
    /\ FileExists(definitions, call.schema.name)
    /\ ~IsNone(get_schema(call.schema.name))

Migrated == call.op = "_generate_migration" /\ ret # <<>>

\* The script the call left in migrations/, None when it wrote none.
Script == migrations[migration_file(call.schema_name, call.version.version)]

RemovedNames == {x \in FieldNamesOf(call.old_schema) : x \notin FieldNamesOf(call.new_schema)}

CommonNames == {x \in FieldNamesOf(call.old_schema) : x \in FieldNamesOf(call.new_schema)}

DropStatement(table, column) ==
    <<"ALTER TABLE ", table, " DROP COLUMN ">> \o Tokens(column) \o <<";">>

AlterStatement(table, column, new_type) ==
    <<"ALTER TABLE ", table, " ALTER COLUMN ">> \o Tokens(column)
        \o <<" TYPE ">> \o Tokens(new_type) \o <<";">>

IsStatement(line) == line # <<>> /\ line[1] = "ALTER TABLE "

\* C11: for every field X removed between the old and the new schema, the
\* migration script generated for schema S contains the statement
\* `ALTER TABLE S DROP COLUMN X;` exactly once, for every valid field name X.
C11_DropColumnOnce ==
    Migrated =>
        \A x \in RemovedNames :
            /\ Script # None
            /\ Count(The(Script), DropStatement(call.schema_name, x)) = 1

\* C12: for every field X whose data_type changed from A to B, the script
\* contains the statement `ALTER TABLE <name> ALTER COLUMN X TYPE B;`, the
\* column named being exactly the field name X.
C12_AlterColumnExactName ==
    Migrated =>
        \A x \in CommonNames :
            LET old_field == FieldNamed(call.old_schema, x)
                new_field == FieldNamed(call.new_schema, x)
            IN old_field.data_type # new_field.data_type =>
                  /\ Script # None
                  /\ Count(The(Script),
                           AlterStatement(call.schema_name, x, new_field.data_type)) >= 1

\* The descriptions of the nullable-to-non-nullable and promoted-to-primary-key
\* changes between the two schemas of the call.
ConstraintChanges ==
    {NullableMsg(x) : x \in {z \in CommonNames :
                                /\ FieldNamed(call.old_schema, z).nullable
                                /\ ~FieldNamed(call.new_schema, z).nullable}}
    \cup
    {PrimaryKeyMsg(x) : x \in {z \in CommonNames :
                                  /\ ~FieldNamed(call.old_schema, z).primary_key
                                  /\ FieldNamed(call.new_schema, z).primary_key}}

\* C13: the generator emits no SQL statement for a nullable-to-non-nullable
\* or a promoted-to-primary-key change: whatever the field's name, generation
\* completes without error and the script holds the comment line of the
\* change, followed by no statement.
C13_CommentOnly ==
    Migrated =>
        \A change \in ConstraintChanges :
            /\ ret = <<"None">>
            /\ Script # None
            /\ \E i \in DOMAIN The(Script) : The(Script)[i] = <<"-- ">> \o change
            /\ \A i \in DOMAIN The(Script) :
                  (The(Script)[i] = <<"-- ">> \o change /\ i < Len(The(Script)))
                     => ~IsStatement(The(Script)[i + 1])

(***************************************************************************)
(* Properties of _calculate_search_score.                                  *)
(***************************************************************************)
Scored == call.op = "_calculate_search_score" /\ ret # <<>>

\* The query occurs in the text, case-insensitively.
Occurs(query, text) == StrIn(Lower(query), Lower(text))

Weight(match, points) == IF match THEN points ELSE 0

NameMatch(r, q) == Occurs(q, r.name)

\* The description, when there is one, contains the query.
DescriptionMatch(r, q) == ~IsNone(r.description) /\ Occurs(q, The(r.description))

MatchingTags(r, q) ==
    IF IsNone(r.tags) THEN {}
    ELSE {i \in DOMAIN The(r.tags) : Occurs(q, The(r.tags)[i])}

MatchingAttributes(r, q) ==
    IF IsNone(r.metadata) THEN {}
    ELSE {i \in DOMAIN The(r.metadata) : Occurs(q, The(r.metadata)[i].value)}

SystemMatch(r, q) == Occurs(q, r.system)

\* The sum of the weights, with the description weight given under `described`.
WeightSum(r, q, described) ==
    Weight(NameMatch(r, q), 10) + Weight(described, 5)
        + Weight(MatchingTags(r, q) # {}, 3) + Weight(MatchingAttributes(r, q) # {}, 2)
        + Weight(SystemMatch(r, q), 1)

\* What follows for the ranking: name and description together give at least
\* 15, a tag alone gives exactly 3.
RankingOf(r, q, score, described) ==
    /\ (NameMatch(r, q) /\ described) => score >= 15
    /\ (/\ ~NameMatch(r, q) /\ ~described /\ MatchingTags(r, q) # {}
        /\ MatchingAttributes(r, q) = {} /\ ~SystemMatch(r, q)) => score = 3

\* C14 as stated: the score is the sum of +10 for the query in the name, +5
\* in the description, +3 in at least one tag, +2 in at least one metadata
\* attribute value, +1 in the system, each a case-insensitive substring test.
C14_ScoreAsStated ==
    Scored =>
        LET r == call.resource
            q == call.query
        IN /\ ret[1].score = WeightSum(r, q, DescriptionMatch(r, q))
           /\ RankingOf(r, q, ret[1].score, DescriptionMatch(r, q))

\* C14 amended: as stated, with +5 if the description is non-empty and the
\* query occurs in it (an empty description never matches, not even the
\* empty query).
C14_ScoreAdditive ==
    Scored =>
        LET r == call.resource
            q == call.query
            described == DescriptionMatch(r, q) /\ The(r.description) # <<>>
        IN /\ ret[1].score = WeightSum(r, q, described)
           /\ RankingOf(r, q, ret[1].score, described)

\* two tags and two attribute values match a non-empty query, and so do the
\* name and the description
C14_Witness ==
    /\ Scored
    /\ call.query # <<>>
    /\ Cardinality(MatchingTags(call.resource, call.query)) >= 2
    /\ NameMatch(call.resource, call.query)
    /\ DescriptionMatch(call.resource, call.query)
    /\ ret[1].score >= 18

(***************************************************************************)
(* Properties of search_resources.                                         *)
(***************************************************************************)
Searched == call.op = "search_resources" /\ ret # <<>>

Registered == {i \in ResourceIds : resource_files[i] # None}

StoredResource(i) == The(_deserialize_resource(The(resource_files[i])))

\* The resource passes every filter given: its type value, system or owner is
\* the value asked for, the tag asked for is among its tags.
PassesFilters(r, filters) ==
    IsNone(filters) \/
    \A k \in DOMAIN The(filters) :
        LET key == The(filters)[k].key
            value == The(filters)[k].value
        IN /\ key = "type" => ResourceTypeValue(r.type) = value
           /\ key = "system" => r.system = value
           /\ key = "owner" => r.owner = Some(value)
           /\ key = "tags" => (~IsNone(r.tags) /\ \E t \in DOMAIN The(r.tags) :
                                                    The(r.tags)[t] = value)

ScoreOf(i) == _calculate_search_score(StoredResource(i), call.query).score

\* The registered resources that pass the filters with a score above 0.
Candidates ==
    {i \in Registered : PassesFilters(StoredResource(i), call.filters) /\ ScoreOf(i) > 0}

Returned == {ret[1][k].resource.resource_id : k \in DOMAIN ret[1]}

\* C15: search_resources returns only registered resources that pass every
\* given filter and have score > 0, each once and with its score, ordered by
\* non-increasing score, at most `limit` of them (all of them when there are
\* no more than `limit`), and no such resource left out scores strictly
\* higher than a returned one.
C15_SearchResults ==
    Searched =>
        /\ \A k \in DOMAIN ret[1] :
              /\ ret[1][k].resource.resource_id \in Candidates
              /\ ret[1][k].resource = StoredResource(ret[1][k].resource.resource_id)
              /\ ret[1][k].score = ScoreOf(ret[1][k].resource.resource_id)
        /\ \A k, l \in DOMAIN ret[1] :
              /\ k < l => ret[1][k].score >= ret[1][l].score
              /\ k # l => ret[1][k].resource.resource_id # ret[1][l].resource.resource_id
        /\ Len(ret[1]) <= call.limit
        /\ Len(ret[1]) < call.limit => Returned = Candidates
        /\ \A i \in Candidates \ Returned, j \in Returned : ScoreOf(i) <= ScoreOf(j)

\* three resources are registered: one fails the filter, two pass it, and
\* the limit of 1 leaves one of the two out
C15_Witness ==
    /\ Searched
    /\ call.limit = 1 /\ Len(ret[1]) = 1
    /\ Truthy(call.filters)
    /\ Cardinality(Registered) = 3
    /\ Cardinality(Candidates) = 2
    /\ \E i \in Candidates \ Returned : ScoreOf(i) <= ret[1][1].score

(***************************************************************************)
(* Properties of add_relationship.                                         *)
(***************************************************************************)
\* The id is non-empty and a resource is stored under it.
InCatalog(resource_id) == resource_id # "" /\ FileExists(resource_files, resource_id)

\* C18: add_relationship returns false and writes no relationship document
\* unless both the source and the target resource id are non-empty and refer
\* to resources currently stored in the catalog; hence every stored
\* relationship has both endpoints present in the catalog.
C18_EndpointsExist ==
    /\ [][(/\ call'.op = "add_relationship"
           /\ ~(/\ InCatalog(call'.relationship.source_resource_id)
                /\ InCatalog(call'.relationship.target_resource_id)))
          => (ret' = <<FALSE>> /\ UNCHANGED relationship_files)]_vars
    /\ [](\A e \in RelationshipIds :
             relationship_files[e] # None =>
                /\ InCatalog(The(relationship_files[e]).source_resource_id)
                /\ InCatalog(The(relationship_files[e]).target_resource_id))

\* a relationship is stored, and a later one from a stored resource to an id
\* that names no resource is refused
C18_Witness ==
    /\ call.op = "add_relationship" /\ ret = <<FALSE>>
    /\ InCatalog(call.relationship.source_resource_id)
    /\ call.relationship.target_resource_id = "zz"
    /\ \E e \in RelationshipIds : relationship_files[e] # None

(***************************************************************************)
(* Properties of create_data_domain.                                       *)
(***************************************************************************)
\* t is s with documents added after it
Extends(t, s) == Len(s) <= Len(t) /\ SubSeq(t, 1, Len(s)) = s

\* No document of the trees is removed or rewritten by the step.
NothingRolledBack ==
    /\ \A n \in StoreNames : FileExists(definitions, n) => definitions'[n] = definitions[n]
    /\ \A n \in StoreNames : Extends(versions'[n], versions[n])
    /\ \A id \in ResourceIds :
          resource_files[id] # None => resource_files'[id] = resource_files[id]
    /\ Extends(access_policies', access_policies)
    /\ Extends(quality_rules', quality_rules)
    /\ Extends(audit_log', audit_log)
    /\ Extends(integration_jobs', integration_jobs)

DomainStep(from, to) ==
    /\ call.op = "create_data_domain" /\ call.pc = from
    /\ call'.op = "create_data_domain" /\ call'.pc = to
    /\ call.schema_created /\ call'.schema_created

\* C16: create_data_domain runs schema, governance, metadata, integration in
\* that order: each tree is written only in its own step, after the steps
\* before it.  A call whose schema creation fails returns False at once and
\* writes no policy, rule, resource or job; a call whose schema creation
\* succeeds goes through the three later steps and returns True, and no
\* step removes or rewrites what an earlier step wrote.
C16_DomainSteps ==
    [][/\ governance_tree' # governance_tree => DomainStep("governance", "metadata")
       /\ metadata_tree' # metadata_tree => DomainStep("metadata", "integration")
       /\ integration_jobs' # integration_jobs => DomainStep("integration", "done")
       /\ store' # store => ~InDomainCall /\ call'.schema_created
       /\ (~InDomainCall /\ call' # call) =>
             /\ UNCHANGED other_trees
             /\ IF call'.schema_created
                THEN call'.pc = "governance" /\ FileExists(definitions', call'.domain_name)
                ELSE call'.pc = "done" /\ ret' = <<FALSE>> /\ UNCHANGED store
       /\ InDomainCall =>
             /\ call.schema_created
             /\ \/ DomainStep("governance", "metadata")
                \/ DomainStep("metadata", "integration")
                \/ DomainStep("integration", "done") /\ ret' = <<TRUE>>
       /\ NothingRolledBack]_vars

\* A call returned True although its governance step raised on a quality
\* rule and its integration step raised: the policy, the first rule and the
\* resource are kept, and no job was written.
C16_Witness ==
    /\ call.op = "create_data_domain" /\ call.pc = "done" /\ call.schema_created
    /\ ret = <<TRUE>>
    /\ call.domain_config.integration = Some([pattern |-> "bogus"])
    /\ integration_jobs = <<>>
    /\ Len(call.domain_config.quality) = 1 /\ Len(The(call.domain_config.quality)) = 2
    /\ Len(quality_rules) = Len(DefaultQualityRules) + 1
    /\ Len(access_policies) = 1
    /\ \E id \in ResourceIds : resource_files[id] # None
    /\ FileExists(definitions, call.domain_name)

(***************************************************************************)
(* Properties of the outcomes of public methods.                           *)
(***************************************************************************)
\* C17: no exception leaves a public manager method: validate_schema on a
\* schema whose fields is None or whose field's data_type is None, and
\* resolve_conflicts on a conflict without the key "records", return a
\* result.
C17_NoException == ret # <<>> => IsNone(ret[1].raised)

(***************************************************************************)
(* Properties of two writers of one tree.                                  *)
(***************************************************************************)
Succeeded(w) == call[w].pc = "done" /\ ret[w] = Some(TRUE)

InHistory(w) ==
    \E i \in DOMAIN versions[call[w].schema.name] :
        versions[call[w].schema.name][i] = VersionRecord(call[w].version)

\* Both calls succeeded on the same schema after reading the same version
\* list: each read the file before the other wrote it back.
ReadTheSame(w, v) ==
    /\ w # v
    /\ Succeeded(w) /\ Succeeded(v)
    /\ call[w].schema.name = call[v].schema.name
    /\ call[w].loaded = call[v].loaded

\* C19: two concurrent writers of one schema can lose an update.  Whenever
\* two calls that both report success have each read the version file
\* before the other wrote it back, the stored history is the list they read
\* plus the record of one of them only: the last write wins and the other
\* record is gone.  (C19_Witness is such an interleaving, with two different
\* records.)
C19_LostUpdate ==
    \A w, v \in Writers :
        ReadTheSame(w, v) =>
            versions[call[w].schema.name] \in
                {SavedVersions(call[w].loaded, call[w].version),
                 SavedVersions(call[v].loaded, call[v].version)}

C19_Witness ==
    \E w, v \in Writers :
        /\ ReadTheSame(w, v)
        /\ call[w].version # call[v].version
        /\ InHistory(w) /\ ~InHistory(v)
        /\ Len(versions[call[w].schema.name]) = Len(call[w].loaded) + 1

(***************************************************************************)
(* Properties of a call that stops between its writes.                     *)
(***************************************************************************)
\* The call of w has passed its checks and written nothing yet.
AboutToWrite(w) ==
    Running(w) /\ call[w].wrote = {} /\ call[w].pc \notin {"exists", "get_schema"}

\* C20 as stated: the writes of a call are not atomic, and a call that stops
\* between two of them can leave the schema document without the version
\* record and can also leave the version record without the schema
\* document: a call about to write can go on with either file.
C20_EitherWithoutTheOther ==
    \A w \in Writers :
        AboutToWrite(w) => (ENABLED WriteDocument(w)) /\ (ENABLED ReadVersions(w))

\* C20, amended: the writes of a call are not atomic and nothing is undone
\* when the call stops between two of them, so the schema document can be
\* left written or updated without the version record of the call (and both
\* without its governance record or migration script); the reverse does not
\* occur, for a call writes its version record only after its schema
\* document.
C20_DocumentFirst ==
    /\ [](\A w \in Writers :
             /\ "versions" \in call[w].wrote => "definitions" \in call[w].wrote
             /\ call[w].wrote \cap {"governance", "migrations"} # {}
                   => "versions" \in call[w].wrote
             /\ "definitions" \in call[w].wrote
                   => FileExists(definitions, call[w].schema.name))
    /\ [][\A w \in Writers :
             (call'[w].pc = "crashed" /\ call[w].pc # "crashed")
                => /\ UNCHANGED <<store, ret>>
                   /\ call'[w].wrote = call[w].wrote]_vars

\* A call stopped after the write of its document and before the write of
\* its version record, the other writer having written nothing: the tree
\* holds the document of the call and no version record of it.
C20_Witness ==
    \E w, v \in Writers :
        /\ w # v /\ call[v].wrote = {}
        /\ call[w].pc = "crashed" /\ call[w].wrote = {"definitions"}
        /\ definitions[call[w].schema.name] =
               Some(SchemaDocument(call[w].schema,
                       IF call[w].op = "create_schema" THEN "created_at" ELSE "updated_at"))
        /\ ~InHistory(w)

(***************************************************************************)
(* Properties of the governance record.                                    *)
(***************************************************************************)
\* The classifications a schema carries: its own and those of its fields.
ClassificationsOf(schema) ==
    {schema.classification} \cup {schema.fields[i].classification : i \in DOMAIN schema.fields}

\* The classifications of the fields alone.
FieldClassificationsOf(schema) ==
    {schema.fields[i].classification : i \in DOMAIN schema.fields}

RequirementsFor(classifications) ==
    IF classifications \cap {"PII", "PHI"} = {} THEN <<>>
    ELSE <<"GDPR", "privacy_by_design">> \o
         (IF "PHI" \in classifications THEN <<"HIPAA">> ELSE <<>>)

\* C21: every successful create_schema writes a governance record whose
\* compliance requirements follow the classification: none when nothing of
\* the schema is classified PII or PHI, GDPR and privacy_by_design when
\* anything is, and HIPAA as well exactly when something is classified PHI.
C21_ComplianceSeeded ==
    \A n \in StoreNames :
        FileExists(created, n) =>
            /\ FileExists(governance, n)
            /\ The(governance[n]).compliance_requirements =
                   RequirementsFor(ClassificationsOf(The(created[n])))

\* The same with the classifications of the fields only; this one holds in
\* SpecGovernance.
FieldsSeeded ==
    \A n \in StoreNames :
        FileExists(created, n) =>
            /\ FileExists(governance, n)
            /\ The(governance[n]).compliance_requirements =
                   RequirementsFor(FieldClassificationsOf(The(created[n])))

(***************************************************************************)
(* Properties of the persisted schema documents.                           *)
(***************************************************************************)
\* C22: after any sequence of create_schema and update_schema calls made one
\* at a time, every stored schema document has a non-empty name, at least
\* one field and pairwise distinct non-empty field names, and the one file
\* of a schema name holds the document of that name.
C22_DocumentsWellFormed ==
    \A n \in StoreNames :
        FileExists(definitions, n) =>
            LET document == The(definitions[n]) IN
            /\ document.name = n /\ document.name # ""
            /\ Len(document.fields) >= 1
            /\ \A i \in DOMAIN document.fields : document.fields[i].name # ""
            /\ \A i, j \in DOMAIN document.fields :
                   i # j => document.fields[i].name # document.fields[j].name

\* A document of two fields written by a successful update_schema.
C22_Witness ==
    /\ call.op = "update_schema" /\ ret = <<TRUE>>
    /\ FileExists(definitions, call.schema.name)
    /\ The(definitions[call.schema.name]).stamp = "updated_at"
    /\ Len(The(definitions[call.schema.name]).fields) = 2

(***************************************************************************)
(* Properties of the migration artifacts.                                  *)
(***************************************************************************)
\* The (schema, version) pair a script was generated for, from its first
\* line.
PairOf(script) == <<script[1][2], script[1][4]>>

LevelsOf(document) ==
    {document.access_levels[i][Len(document.access_levels[i])] :
        i \in DOMAIN document.access_levels}

\* The document of a policy without expiry date that create_access_policy
\* wrote, and that names the user, the resource and the level of the call.
Covers(document, c) ==
    /\ document.created_by # "import"
    /\ document.expiry_date = None
    /\ \E i \in DOMAIN document.principals : document.principals[i] = c.user_id
    /\ MatchAt(c.resource, RStripStar(document.resource_pattern), 1)
    /\ c.access_level \in LevelsOf(document)

\* C26: access policies are effective once created: after
\* create_access_policy(P) returned true for a policy P without expiry date,
\* check_access(u, r, level) returns true for every user u of P.principals,
\* every resource r that starts with P.resource_pattern without its
\* trailing '*', and every level of P.access_levels.
C26_PolicyEffective ==
    (call.op = "check_access" /\ ret # <<>>) =>
        ((\E i \in DOMAIN access_policies : Covers(access_policies[i], call))
            => ret = <<TRUE>>)

(***************************************************************************)
(* Properties of the data-type whitelists.                                 *)
(***************************************************************************)
InvalidDataType(field) ==
    <<"Invalid data type ", field.data_type, " for field ", field.name>>

\* The schema type of a stored document is GRAPH, in either format.
GraphDocument(document) ==
    document.schema_type \in {EnumValue("GRAPH"), EnumStr("GRAPH")}

RECURSIVE TreeIds(_, _)
TreeIds(tree, pc) ==
    IF tree = <<>> THEN <<>>
    ELSE <<Head(tree).node.node_id>>
         \o TreeIds(IF pc = "upstream" THEN Head(tree).upstream ELSE Head(tree).downstream, pc)
         \o TreeIds(Tail(tree), pc)

ReturnedIds == TreeIds(call.upstream, "upstream") \o TreeIds(call.downstream, "downstream")

NoRepeat(ids) == \A i, j \in DOMAIN ids : ids[i] = ids[j] => i = j

LineageDone == call.op = "get_data_lineage" /\ call.pc = "done"

RECURSIVE Reach(_, _, _)
Reach(seen, frontier, pc) ==
    LET registered == {call.nodes[i].node_id : i \in DOMAIN call.nodes}
        next == {FarEnd(call.edges[i], pc) : i \in
                    {j \in DOMAIN call.edges :
                        \E n \in frontier : Matches(call.edges[j], n, pc)}}
        new == (next \cap registered) \ seen
    IN IF new = {} THEN seen ELSE Reach(seen \cup new, new, pc)

Related(start, pc) == Reach({}, {start}, pc) \ {start}

IdSet(ids) == {ids[i] : i \in DOMAIN ids}

\* C28: get_data_lineage with direction "both" is complete and excludes the
\* target: every other node from which the target is reachable is in the
\* upstream tree, every other node reachable from the target is in the
\* downstream tree, and the target is in neither tree.
C28_LineageComplete ==
    (LineageDone /\ call.direction = "both") =>
        /\ Related(call.node_id, "upstream") \subseteq IdSet(TreeIds(call.upstream, "upstream"))
        /\ Related(call.node_id, "downstream")
              \subseteq IdSet(TreeIds(call.downstream, "downstream"))
        /\ call.node_id \notin IdSet(ReturnedIds)

\* The same for the graphs in which the target lies on no cycle.
LineageCompleteAcyclic ==
    (LineageDone /\ call.direction = "both"
        /\ call.node_id \notin Reach({}, {call.node_id}, "upstream")) =>
        /\ Related(call.node_id, "upstream") = IdSet(TreeIds(call.upstream, "upstream"))
        /\ Related(call.node_id, "downstream") = IdSet(TreeIds(call.downstream, "downstream"))
        /\ call.node_id \notin IdSet(ReturnedIds)

(***************************************************************************)
(* Properties of integration jobs.                                         *)
(***************************************************************************)
\* The document of an active job that create_integration_job accepted.
AcceptedActive(document) ==
    /\ document.created_by # "import"
    /\ document.active

\* C29: every integration job accepted by create_integration_job is
\* executable: for an active job for which create_integration_job returned
\* true, execute_integration_job returns a result and not None, its status
\* is "success" or "failure" and never "running", and the result is stored
\* under the job and result identifiers.
C29_AcceptedJobsExecute ==
    (/\ call.op = "execute_integration_job"
     /\ \E i \in DOMAIN integration_jobs :
           /\ integration_jobs[i].job_id = call.job_id
           /\ AcceptedActive(integration_jobs[i])) =>
        /\ ret # <<None>>
        /\ The(The(ret)).status \in {"success", "failure"}
        /\ \E i \in DOMAIN integration_results :
              /\ integration_results[i].job_id = call.job_id
              /\ integration_results[i].result_id = The(The(ret)).result_id
              /\ integration_results[i] = The(The(ret))

\* The same for the jobs execute_integration_job loads.
LoadedJobsExecute ==
    (/\ call.op = "execute_integration_job"
     /\ ~IsNone(_load_integration_job(call.job_id))
     /\ The(_load_integration_job(call.job_id)).active) =>
        /\ ret # <<None>>
        /\ The(The(ret)).status \in {"success", "failure"}
        /\ \E i \in DOMAIN integration_results : integration_results[i] = The(The(ret))

(***************************************************************************)
(* Properties of interleaved create_schema calls.                          *)
(***************************************************************************)
Creates(w) == call[w].op = "create_schema"

\* The document create_schema writes for the schema of w.
DocumentOf(w) == Some(SchemaDocument(call[w].schema, "created_at"))

\* C30 as stated: for each schema name at most one create_schema call
\* returns true, also when two calls for the name are interleaved between
\* their existence check and their file writes, and the stored document is
\* the one of the call that succeeded.
C30_AtMostOneCreate ==
    \A w, v \in Writers :
        (w # v /\ Creates(w) /\ Creates(v)
            /\ call[w].schema.name = call[v].schema.name /\ Succeeded(w)) =>
            /\ ~Succeeded(v)
            /\ definitions[call[w].schema.name] = DocumentOf(w)

\* C30, amended: a create_schema call whose existence check comes after the
\* document of the name was written returns false, so calls that run one
\* after another give at most one true; a document once written stays, and
\* after a successful call the stored document is the one a create_schema
\* call wrote, the last to write (two interleaved calls can both succeed).
C30_CheckAfterWrite ==
    /\ [](\A w \in Writers :
            /\ "definitions" \in call[w].wrote =>
                  FileExists(definitions, call[w].schema.name)
            /\ (Creates(w) /\ Succeeded(w)) =>
                  \E u \in Writers :
                     /\ Creates(u) /\ "definitions" \in call[u].wrote
                     /\ definitions[call[u].schema.name] = DocumentOf(u))
    /\ [][\A w \in Writers :
            (/\ Creates(w) /\ At(w, "exists")
             /\ FileExists(definitions, call[w].schema.name)
             /\ call'[w].pc \notin {"exists", "crashed"}) =>
                ret'[w] = Some(FALSE)]_vars

\* Two interleaved create_schema calls with different schemas for one name
\* both returned true; the stored document is the one of the first of them.
C30_Witness ==
    \E w, v \in Writers :
        /\ w # v /\ Creates(w) /\ Creates(v)
        /\ Succeeded(w) /\ Succeeded(v)
        /\ call[w].schema # call[v].schema
        /\ definitions[call[w].schema.name] = DocumentOf(w)
====
